---- MODULE Spec2Model ----
(***************************************************************************)
(* A model of the animation orchestration core of the pixi scene demo:     *)
(* SceneManager + Scene (scene switching and fades), BubbleText,           *)
(* Character, CharacterManager and Cutscene.                               *)
(*                                                                         *)
(* Time is an integer number of ticks.  Durations that the code halves     *)
(* (duration / 2) are kept doubled (dur2) so that no fraction is needed:   *)
(* "elapsed / (duration/2) >= 1" is "2 * elapsed >= dur2".                 *)
(***************************************************************************)
EXTENDS Integers, Sequences, FiniteSets, TLC

\* ------------------------------------------------------------------ bounds
MaxTime == 8          \* the clock stops advancing here
MaxFrameDt == 2       \* largest gap between two animation frames / ticks
MaxScenes == 3        \* number of Scene objects that can be constructed
MaxTimers == 2        \* setTimeout calls made in one run
MaxTweens == 3        \* gsap tweens created in one run
MaxActors == 2        \* Character / BubbleText objects constructed
MaxProgram == 3       \* builder calls made on one Cutscene
MaxFired == 2         \* runs of one callback that are counted

\* ------------------------------------------------------------- vocabulary
Names == {"a", "b"}                  \* scene names used by the callers
NoName == "null"                     \* currentSceneName === null
NoScene == 0                         \* currentScene === null / Map miss
SceneIds == 1..MaxScenes             \* Scene object identities
FadeDurations == {2, 3}              \* transition.duration values tried
NoTransition == [type |-> "none", duration |-> 0]
Transitions == {NoTransition}
                 \cup [type : {"fade", "slide", "zoom"}, duration : FadeDurations]

VARIABLES
    now,               \* performance.now() / the shared frame clock
    \* --- SceneManager (src/src/scenes/SceneManager.js)
    scenes,            \* this.scenes : name -> Scene (NoScene when absent)
    currentScene,      \* this.currentScene
    currentSceneName,  \* this.currentSceneName
    isTransitioning,   \* this.isTransitioning
    \* --- Scene objects (src/unnamed/part_006)
    sceneActive,       \* Scene.isActive per object
    sceneDestroyed,    \* Scene.destroy() has run on the object
    sceneAlpha,        \* Scene.container.alpha in percent
    raf,               \* pending requestAnimationFrame fade loops, oldest first
    smThrew,           \* a fade callback dereferenced a null currentScene
    lastCall,          \* the last public call and what it returned
    lifecycle,         \* activate / deactivate / destroy calls of the last step
    delivered          \* the scenes the last update / input event reached

sceneVars == <<scenes, currentScene, currentSceneName, isTransitioning,
               sceneActive, sceneDestroyed, sceneAlpha, raf, smThrew, lastCall,
               lifecycle, delivered>>

\* --- the host timer table, the gsap ticker, BubbleText objects
VARIABLES
    timers,            \* pending setTimeout callbacks
    ntimer,            \* number of setTimeout calls so far (ids are 1, 2, ..)
    tweens,            \* live gsap tweens in creation (= render) order
    ntween,            \* number of tweens created so far
    bubbles,           \* BubbleText objects (src/unnamed/part_000)
    actors,            \* Character objects (src/src/game/Character.js)
    lastEvent,         \* the last call made or callback run, for observation
    cut                \* the Cutscene and its timeline (src/src/utils/Cutscene.js)

worldVars == <<timers, ntimer, tweens, ntween, bubbles, actors, lastEvent, cut>>

\* --- CharacterManager (src/src/game/CharacterManager.js)
VARIABLES
    characters,        \* this.characters : the ordered list
    charactersById,    \* this.charactersById : id -> Character (0 when absent)
    found,             \* the last findNearestCharacter call and its result
    \* --- a Cutscene program replayed on an object without moveTo
    twin,              \* that object's world, and what both objects showed
    \* --- AssetLoader (src/src/utils/AssetLoader.js)
    loader             \* loadedAssets, isLoading and the loadAssets calls made

regVars == <<characters, charactersById, found, twin, loader>>

vars == <<now, sceneVars, worldVars, regVars>>

\* ============================================================ SceneManager

\* The manager fields a fade callback reads and writes, as one record.
ManagerState ==
    [cur |-> currentScene, curName |-> currentSceneName,
     trans |-> isTransitioning, active |-> sceneActive,
     alpha |-> sceneAlpha, raf |-> <<>>, threw |-> smThrew, log |-> <<>>]

\* one entry of the record of lifecycle calls
Lifecycle(op, s) == [op |-> op, scene |-> s]

\* Scene.activate(app): isActive = true.
Activate(st, s) ==
    [st EXCEPT !.active[s] = TRUE, !.log = Append(@, Lifecycle("activate", s))]

\* Scene.deactivate(): isActive = false.
Deactivate(st, s) ==
    [st EXCEPT !.active[s] = FALSE, !.log = Append(@, Lifecycle("deactivate", s))]

\* Scene.destroy(): deactivate(), then the container is destroyed.
DestroyScene(st, s) ==
    [Deactivate(st, s) EXCEPT !.log = Append(@, Lifecycle("destroy", s))]

\* Scene.fadeIn(duration, onComplete): alpha = 0, then one rAF loop.
\* began/total only remember when the changeScene call was made and the
\* duration it asked for; the code keeps them in the closure.
FadeIn(st, s, dur2, target, tname, t, began, total) ==
    [st EXCEPT !.alpha[s] = 0,
               !.raf = Append(@, [kind |-> "in", scene |-> s, start |-> t,
                                  dur2 |-> dur2, target |-> target,
                                  tname |-> tname, began |-> began,
                                  total |-> total])]

\* Scene.fadeOut(duration, onComplete): alpha = 1, then one rAF loop.
FadeOut(st, s, dur2, target, tname, t, began, total) ==
    [st EXCEPT !.alpha[s] = 100,
               !.raf = Append(@, [kind |-> "out", scene |-> s, start |-> t,
                                  dur2 |-> dur2, target |-> target,
                                  tname |-> tname, began |-> began,
                                  total |-> total])]

\* _changeSceneImmediate that activates the target before the previous scene
\* is deactivated
ChangeSceneActivatesFirst(st, s, n) ==
    LET a == Activate([st EXCEPT !.cur = s, !.curName = n], s)
        d == IF st.cur # NoScene THEN Deactivate(a, st.cur) ELSE a
    IN [d EXCEPT !.trans = FALSE]

\* SceneManager._changeSceneImmediate(newScene, name)
ChangeSceneImmediate(st, s, n) ==
    LET d == IF st.cur # NoScene THEN Deactivate(st, st.cur) ELSE st
        a == Activate([d EXCEPT !.cur = s, !.curName = n], s)
    IN [a EXCEPT !.trans = FALSE]

\* SceneManager._slideTransition: the same swap, no animation.
SlideTransition(st, s, n) ==
    LET d == IF st.cur # NoScene THEN Deactivate(st, st.cur) ELSE st
        a == Activate([d EXCEPT !.cur = s, !.curName = n], s)
    IN [a EXCEPT !.trans = FALSE]

\* SceneManager._fadeTransition(newScene, name, duration) at time t.
FadeTransition(st, s, n, D, t) ==
    IF st.cur # NoScene
    THEN FadeOut(st, st.cur, D, s, n, t, t, D)
    ELSE FadeIn(Activate([st EXCEPT !.cur = s, !.curName = n], s),
                s, 2 * D, s, n, t, t, D)

\* SceneManager._performTransition(newScene, name, transition)
PerformTransition(st, s, n, tr, t) ==
    CASE tr.type = "fade" -> FadeTransition(st, s, n, tr.duration, t)
      [] tr.type = "slide" -> SlideTransition(st, s, n)
      [] OTHER -> ChangeSceneImmediate(st, s, n)

\* FadeOutDone with the flag cleared as soon as the new scene is activated.
FadeOutDoneClearsEarly(st, f, t) ==
    IF st.cur = NoScene
    THEN [st EXCEPT !.threw = TRUE]
    ELSE LET d == Deactivate(st, st.cur)
             a == Activate([d EXCEPT !.cur = f.target, !.curName = f.tname,
                                     !.trans = FALSE],
                           f.target)
         IN FadeIn(a, f.target, f.dur2, f.target, f.tname, t, f.began, f.total)

\* The completion callback of a fade-out (SceneManager.js 113-124).
FadeOutDone(st, f, t) ==
    IF st.cur = NoScene
    THEN [st EXCEPT !.threw = TRUE]       \* null.deactivate() throws
    ELSE LET d == Deactivate(st, st.cur)
             a == Activate([d EXCEPT !.cur = f.target, !.curName = f.tname],
                           f.target)
         IN FadeIn(a, f.target, f.dur2, f.target, f.tname, t, f.began, f.total)

\* The completion callback of a fade-in (SceneManager.js 120-123, 130-133).
FadeInDone(st, f) == [st EXCEPT !.trans = FALSE]

\* progress = Math.min(elapsed / duration, 1), in percent.
Progress(f, t) ==
    IF 2 * (t - f.start) >= f.dur2 THEN 100
    ELSE (200 * (t - f.start)) \div f.dur2

\* One run of the `animate` closure of fadeIn / fadeOut at frame time t.
AnimateStep(st, f, t) ==
    LET p == Progress(f, t)
        al == IF f.kind = "in" THEN p ELSE 100 - p
        s1 == [st EXCEPT !.alpha[f.scene] = al]
    IN IF p < 100
       THEN [s1 EXCEPT !.raf = Append(@, f)]         \* requestAnimationFrame
       ELSE IF f.kind = "out" THEN FadeOutDone(s1, f, t)
            ELSE FadeInDone(s1, f)

\* All callbacks queued for this frame run in request order.
RECURSIVE RunFrame(_, _, _)
RunFrame(st, queue, t) ==
    IF queue = <<>> THEN st
    ELSE RunFrame(AnimateStep(st, Head(queue), t), Tail(queue), t)

SetManager(st) ==
    /\ currentScene' = st.cur
    /\ currentSceneName' = st.curName
    /\ isTransitioning' = st.trans
    /\ sceneActive' = st.active
    /\ sceneAlpha' = st.alpha
    /\ smThrew' = st.threw
    /\ lifecycle' = st.log
    /\ delivered' = {}

\* addScene that destroys a replaced scene without detaching it as current
AddSceneKeepsCurrent(n, s) ==
    LET old == scenes[n]
        st0 == ManagerState
        st2 == IF old # NoScene THEN DestroyScene(st0, old) ELSE st0
    IN /\ ~sceneDestroyed[s]
       /\ \A m \in Names : scenes[m] # s
       /\ SetManager(st2)
       /\ sceneDestroyed' = IF old # NoScene
                            THEN [sceneDestroyed EXCEPT ![old] = TRUE]
                            ELSE sceneDestroyed
       /\ scenes' = [scenes EXCEPT ![n] = s]
       /\ lastCall' = [op |-> "addScene", name |-> n, ret |-> TRUE]
       /\ UNCHANGED <<now, raf, worldVars, regVars>>

\* SceneManager.addScene(name, scene)
AddScene(n, s) ==
    LET old == scenes[n]
        st0 == ManagerState
        st1 == IF old # NoScene /\ old = st0.cur
               THEN [Deactivate(st0, old) EXCEPT !.cur = NoScene,
                                                 !.curName = NoName]
               ELSE st0
        st2 == IF old # NoScene THEN DestroyScene(st1, old) ELSE st1
    IN /\ ~sceneDestroyed[s]
       /\ \A m \in Names : scenes[m] # s
       /\ SetManager(st2)
       /\ sceneDestroyed' = IF old # NoScene
                            THEN [sceneDestroyed EXCEPT ![old] = TRUE]
                            ELSE sceneDestroyed
       /\ scenes' = [scenes EXCEPT ![n] = s]
       /\ lastCall' = [op |-> "addScene", name |-> n, ret |-> TRUE]
       /\ UNCHANGED <<now, raf, worldVars, regVars>>

\* SceneManager.removeScene(name)
RemoveScene(n) ==
    LET old == scenes[n]
        st0 == ManagerState
        st1 == IF old = st0.cur
               THEN [Deactivate(st0, old) EXCEPT !.cur = NoScene,
                                                 !.curName = NoName]
               ELSE st0
        st2 == IF old # NoScene THEN DestroyScene(st1, old) ELSE st0
    IN /\ SetManager(st2)
       /\ sceneDestroyed' = IF old # NoScene
                            THEN [sceneDestroyed EXCEPT ![old] = TRUE]
                            ELSE sceneDestroyed
       /\ scenes' = [scenes EXCEPT ![n] = NoScene]
       /\ lastCall' = [op |-> "removeScene", name |-> n, ret |-> old # NoScene]
       /\ UNCHANGED <<now, raf, worldVars, regVars>>

\* the loop of SceneManager.destroy over the registered scenes
RECURSIVE DestroyAll(_, _)
DestroyAll(st, names) ==
    IF names = {} THEN st
    ELSE LET n == CHOOSE m \in names : TRUE
         IN DestroyAll(DestroyScene(st, scenes[n]), names \ {n})

\* SceneManager.destroy(): the fade loops already requested stay requested.
DestroyManager ==
    LET st1 == DestroyAll(ManagerState, {n \in Names : scenes[n] # NoScene})
        st2 == [st1 EXCEPT !.cur = NoScene, !.curName = NoName,
                           !.trans = FALSE]
    IN /\ SetManager(st2)
       /\ sceneDestroyed' = [s \in SceneIds |->
                               \/ sceneDestroyed[s]
                               \/ \E n \in Names : scenes[n] = s]
       /\ scenes' = [n \in Names |-> NoScene]
       /\ lastCall' = [op |-> "destroy", name |-> NoName, ret |-> TRUE]
       /\ UNCHANGED <<now, raf, worldVars, regVars>>

\* changeScene without the "transition already in progress" early return.
ChangeSceneNoGuard(n, tr) ==
    LET s == scenes[n]
        st0 == [ManagerState EXCEPT !.raf = raf]
        st1 == [st0 EXCEPT !.trans = TRUE]
        st2 == IF tr.type # "none"
               THEN PerformTransition(st1, s, n, tr, now)
               ELSE ChangeSceneImmediate(st1, s, n)
        ok == s # NoScene
        st == IF ok /\ s # currentScene THEN st2 ELSE st0
    IN /\ SetManager(st)
       /\ raf' = st.raf
       /\ lastCall' = [op |-> "changeScene", name |-> n, ret |-> ok]
       /\ UNCHANGED <<now, scenes, sceneDestroyed, worldVars, regVars>>

\* changeScene without the "already active" early return
ChangeSceneAgain(n, tr) ==
    LET s == scenes[n]
        st0 == [ManagerState EXCEPT !.raf = raf]
        st1 == [st0 EXCEPT !.trans = TRUE]
        st2 == IF tr.type # "none"
               THEN PerformTransition(st1, s, n, tr, now)
               ELSE ChangeSceneImmediate(st1, s, n)
        ok == ~isTransitioning /\ s # NoScene
        st == IF ok THEN st2 ELSE st0
    IN /\ SetManager(st)
       /\ raf' = st.raf
       /\ lastCall' = [op |-> "changeScene", name |-> n, ret |-> ok]
       /\ UNCHANGED <<now, scenes, sceneDestroyed, worldVars, regVars>>

\* changeScene without the lookup of the name in the registry
ChangeSceneUnknown(n, tr) ==
    LET s == scenes[n]
        st0 == [ManagerState EXCEPT !.raf = raf]
        st1 == [st0 EXCEPT !.trans = TRUE]
        st2 == IF tr.type # "none"
               THEN PerformTransition(st1, s, n, tr, now)
               ELSE ChangeSceneImmediate(st1, s, n)
        ok == ~isTransitioning
        st == IF ok /\ s # currentScene THEN st2 ELSE st0
    IN /\ SetManager(st)
       /\ raf' = st.raf
       /\ lastCall' = [op |-> "changeScene", name |-> n, ret |-> ok]
       /\ UNCHANGED <<now, scenes, sceneDestroyed, worldVars, regVars>>

\* SceneManager.changeScene(name, transition)
ChangeScene(n, tr) ==
    LET s == scenes[n]
        st0 == [ManagerState EXCEPT !.raf = raf]
        st1 == [st0 EXCEPT !.trans = TRUE]
        st2 == IF tr.type # "none"
               THEN PerformTransition(st1, s, n, tr, now)
               ELSE ChangeSceneImmediate(st1, s, n)
        ok == ~isTransitioning /\ s # NoScene
        st == IF ok /\ s # currentScene THEN st2 ELSE st0
    IN /\ SetManager(st)
       /\ raf' = st.raf
       /\ lastCall' = [op |-> "changeScene", name |-> n, ret |-> ok]
       /\ UNCHANGED <<now, scenes, sceneDestroyed, worldVars, regVars>>

\* One animation frame, dt after the previous one: every pending fade loop
\* runs its `animate` closure with the frame's timestamp.
Frame(dt) ==
    LET st == RunFrame(ManagerState, raf, now + dt)
    IN /\ now + dt <= MaxTime
       /\ now' = now + dt
       /\ SetManager(st)
       /\ raf' = st.raf
       /\ lastCall' = [op |-> "frame", name |-> NoName, ret |-> TRUE]
       /\ UNCHANGED <<scenes, sceneDestroyed, worldVars, regVars>>

\* update without the isTransitioning and isActive tests
UpdateAlways ==
    /\ delivered' = IF currentScene # NoScene THEN {currentScene} ELSE {}
    /\ lifecycle' = <<>>
    /\ lastCall' = [op |-> "update", name |-> NoName, ret |-> TRUE]
    /\ UNCHANGED <<now, scenes, currentScene, currentSceneName, isTransitioning,
                   sceneActive, sceneDestroyed, sceneAlpha, raf, smThrew,
                   worldVars, regVars>>

\* SceneManager.update(delta): Scene.update does nothing by itself.
Update ==
    /\ delivered' = IF /\ currentScene # NoScene
                       /\ sceneActive[currentScene]
                       /\ ~isTransitioning
                    THEN {currentScene} ELSE {}
    /\ lifecycle' = <<>>
    /\ lastCall' = [op |-> "update", name |-> NoName, ret |-> TRUE]
    /\ UNCHANGED <<now, scenes, currentScene, currentSceneName, isTransitioning,
                   sceneActive, sceneDestroyed, sceneAlpha, raf, smThrew,
                   worldVars, regVars>>

\* SceneManager.resize(width, height): every Scene has a resize method.
Resize ==
    /\ delivered' = IF currentScene # NoScene THEN {currentScene} ELSE {}
    /\ lifecycle' = <<>>
    /\ lastCall' = [op |-> "resize", name |-> NoName, ret |-> TRUE]
    /\ UNCHANGED <<now, scenes, currentScene, currentSceneName, isTransitioning,
                   sceneActive, sceneDestroyed, sceneAlpha, raf, smThrew,
                   worldVars, regVars>>

\* SceneManager.onPointerDown / onPointerUp / onPointerMove / onKeyDown /
\* onKeyUp(event): the five handlers have the same body.
InputEvents == {"onPointerDown", "onPointerUp", "onPointerMove",
                "onKeyDown", "onKeyUp"}
Input(kind) ==
    /\ delivered' = IF currentScene # NoScene /\ ~isTransitioning
                    THEN {currentScene} ELSE {}
    /\ lifecycle' = <<>>
    /\ lastCall' = [op |-> kind, name |-> NoName, ret |-> TRUE]
    /\ UNCHANGED <<now, scenes, currentScene, currentSceneName, isTransitioning,
                   sceneActive, sceneDestroyed, sceneAlpha, raf, smThrew,
                   worldVars, regVars>>

InitScene ==
    /\ now = 0
    /\ scenes = [n \in Names |-> NoScene]
    /\ currentScene = NoScene
    /\ currentSceneName = NoName
    /\ isTransitioning = FALSE
    /\ sceneActive = [s \in SceneIds |-> FALSE]
    /\ sceneDestroyed = [s \in SceneIds |-> FALSE]
    /\ sceneAlpha = [s \in SceneIds |-> 100]
    /\ raf = <<>>
    /\ smThrew = FALSE
    /\ lifecycle = <<>>
    /\ delivered = {}
    /\ lastCall = [op |-> "new", name |-> NoName, ret |-> TRUE]

\* ========================================== timers, tweens and BubbleText

Refs == 1..MaxActors                 \* object identities (actor r owns bubble r)
NoTimer == 0                         \* hideTimeout === null
Messages == {"A", "B"}               \* bubble texts
NoMessage == ""                      \* this.text === null
ShowDurations == {0, 2, 3}           \* show(..., duration) values tried
BubbleInTicks == 3                   \* entrance tween, 0.3 s
BubbleOutTicks == 2                  \* exit tween, 0.2 s
MaxAge == 4                          \* sinceShow stops counting here
MaxLoads == 2                        \* loadAssets calls made in a run

Event(e, r, a, txt, fl) == [ev |-> e, ref |-> r, at |-> a, text |-> txt, flag |-> fl]

\* new BubbleText()
NewBubble ==
    [made |-> FALSE, isVisible |-> FALSE, hideTimeout |-> NoTimer,
     text |-> NoMessage, alpha |-> 100, destroyed |-> FALSE,
     sinceShow |-> 0, shownFor |-> 0,
     \* observation only: hide() has run on the visible bubble, from a call
     \* or from its timer, since the latest show
     hideSince |-> FALSE]

\* ---------------------------------------------------------------- Character
NoCoord == -1000                     \* a coordinate that was not passed
NoTween == 0                         \* this.moveTween === null
NoDuration == -1                     \* duration === null
AllClips == {"idle", "walk", "run", "attack", "hurt", "die", "jump"}
PartialClips == {"idle", "walk"}     \* a spritesheet with two clips only
ClipSets == {AllClips, PartialClips, {}}     \* full, partial, or no sheet
Directions == {"left", "right"}
ClipNames == {"walk", "roar"}        \* names passed to playAnimation directly
NoIdleClips == {"walk"}              \* a spritesheet without an 'idle' clip
MoveSpeed == 100                     \* px per second
MinMoveTicks == 3                    \* Math.max(0.3, ..) in ticks of 0.1 s
Gravity == 5                         \* 500 px/s^2 in px per tick^2
JumpHeight == 4                      \* options.jumpHeight
JumpTicks == 2                       \* options.jumpDuration = 0.2 s
KnockTicks == 3                      \* knockback tween, 0.3 s
AttackIdleDelay == 2                 \* clip length of the attack clip, ticks
HurtIdleDelay == 8                   \* 800 ms
DieFadeTicks == 30                   \* delay 1 s + duration 2 s
DeadZone == 5                        \* Math.abs(deltaX) > 5
Point(px, py, pg) == [x |-> px, y |-> py, groundY |-> pg]
StartPositions == {Point(0, 4, NoCoord)}
MovePoints == {Point(8, 4, NoCoord), Point(0, 0, NoCoord)}
MoveDurations == {NoDuration, 2}

\* JavaScript a || b on coordinates: undefined and 0 are falsy.
Or(a, b) == IF a = NoCoord \/ a = 0 THEN b ELSE a

Abs(n) == IF n < 0 THEN -n ELSE n
Max(a, b) == IF a >= b THEN a ELSE b

\* a slot in which no Character has been constructed
NoActor ==
    [alive |-> FALSE, id |-> "", x |-> 0, y |-> 0, groundY |-> 0,
     direction |-> "right", scaleX |-> 1, isMoving |-> FALSE,
     moveTween |-> NoTween, currentAnimation |-> "idle", clips |-> {},
     isGrounded |-> TRUE, vy |-> 0, hasBubble |-> FALSE,
     destroyed |-> FALSE, managed |-> FALSE,
     \* observation only: the target last passed to moveTo, whether that
     \* move's onComplete ran in the last step, whether another command came
     \* after the moveTo, whether the moveTo replaced a move in flight, and
     \* whether addCharacter replaced this actor
     goal |-> Point(0, 0, NoCoord), justCompleted |-> FALSE,
     cmdSince |-> FALSE, overrode |-> FALSE, replaced |-> FALSE]

\* new Character(spritesheet, startPosition, options)
NewCharacter(start, clips) ==
    LET g == Or(start.groundY, start.y)
    IN [NoActor EXCEPT !.alive = TRUE, !.clips = clips, !.groundY = g,
                       !.x = start.x, !.y = g, !.managed = TRUE]

\* setDirection that mirrors the sprite on every call
SetDirectionFlips(a, dir) ==
    [a EXCEPT !.direction = dir, !.scaleX = -a.scaleX]

\* Character.setDirection(direction)
SetDirection(a, dir) ==
    IF dir = a.direction THEN a
    ELSE [a EXCEPT !.direction = dir,
                   !.scaleX = IF dir = "left" THEN -1 ELSE 1]

\* the "face the target" lines shared by moveTo, jumpTo, attack and lookAt
Face(a, targetX) ==
    LET deltaX == targetX - a.x
    IN IF Abs(deltaX) > DeadZone
       THEN SetDirection(a, IF deltaX > 0 THEN "right" ELSE "left")
       ELSE a

\* Character.playAnimation(name, force).  When the spritesheet has no 'idle'
\* clip the constructor made a plain container as sprite: the assignments of
\* lines 271-273 still happen and sprite.play() then throws.
PlayAnimation(a, name, force) ==
    IF ~force /\ a.currentAnimation = name THEN a
    ELSE IF a.clips = {} THEN a            \* no spritesheet: warn, return
    ELSE IF name \notin a.clips THEN a     \* no such clip: warn, return
    ELSE [a EXCEPT !.currentAnimation = name]

\* Math.max(0.3, distance / moveSpeed) in ticks of 0.1 s, rounded down
DefaultDuration(dx, dy) ==
    LET d2 == 100 * (dx * dx + dy * dy)     \* (10 * distance)^2
    IN IF d2 <= MinMoveTicks * MinMoveTicks * MoveSpeed * MoveSpeed
       THEN MinMoveTicks
       ELSE (CHOOSE k \in 0..(10 * (Abs(dx) + Abs(dy))) :
                  k * k <= d2 /\ (k + 1) * (k + 1) > d2)
                \div MoveSpeed

\* Everything a call or callback can touch, threaded through nested calls.
World ==
    [timers |-> timers, ntimer |-> ntimer, tweens |-> tweens,
     ntween |-> ntween, bubbles |-> bubbles,
     actors |-> [r \in Refs |-> [actors[r] EXCEPT !.justCompleted = FALSE]],
     ev |-> lastEvent, cut |-> cut]

SetWorld(W) ==
    /\ timers' = W.timers
    /\ ntimer' = W.ntimer
    /\ tweens' = W.tweens
    /\ ntween' = W.ntween
    /\ bubbles' = W.bubbles
    /\ actors' = W.actors
    /\ lastEvent' = W.ev
    /\ cut' = W.cut

\* setTimeout(fn, delay): the id is returned in W.ntimer.
SetTimeout(W, r, kind, delay, fl) ==
    [W EXCEPT !.ntimer = @ + 1,
              !.timers = @ \cup {[id |-> W.ntimer + 1, owner |-> r,
                                  kind |-> kind, left |-> delay,
                                  flag |-> fl]}]

\* clearTimeout(id)
ClearTimeout(W, id) == [W EXCEPT !.timers = {tm \in @ : tm.id # id}]

\* gsap.to(target, {duration, onComplete}): the handle is W.ntween.
\* sx, sy are filled in by the first render (gsap reads start values lazily).
GsapTo(W, r, kind, dur, tx, ty) ==
    [W EXCEPT !.ntween = @ + 1,
              !.tweens = Append(@, [id |-> W.ntween + 1, owner |-> r,
                                    kind |-> kind, dur |-> dur, el |-> 0,
                                    tx |-> tx, ty |-> ty, sx |-> 0, sy |-> 0,
                                    peak |-> 0, init |-> FALSE])]

\* tween.kill()
KillTween(W, id) ==
    [W EXCEPT !.tweens = SelectSeq(@, LAMBDA tw : tw.id # id)]

\* BubbleText.show that overwrites hideTimeout without clearing the old timer.
BubbleShowKeepsTimer(W, b, msg, d) ==
    LET bb == W.bubbles[b]
        W1 == W
        W2 == [W1 EXCEPT !.bubbles[b].text = msg, !.bubbles[b].made = TRUE,
                         !.bubbles[b].sinceShow = 0,
                         !.bubbles[b].shownFor = d,
                         !.bubbles[b].hideSince = FALSE]
        W3 == IF ~bb.isVisible
              THEN GsapTo([W2 EXCEPT !.bubbles[b].alpha = 0,
                                     !.bubbles[b].isVisible = TRUE],
                          b, "bubbleIn", BubbleInTicks, 0, 0)
              ELSE W2
        W4 == IF d > 0
              THEN LET T == SetTimeout(W3, b, "hide", d, bb.hideTimeout # NoTimer)
                   IN [T EXCEPT !.bubbles[b].hideTimeout = T.ntimer]
              ELSE W3
    IN [W4 EXCEPT !.ev = Event("show", b, 0, msg, bb.hideTimeout # NoTimer)]

\* BubbleText.show(message, position, duration).  The bubble's geometry and
\* its position tweens are left out; sinceShow/shownFor remember the call
\* (time since the latest show, and the duration it was given).
BubbleShow(W, b, msg, d) ==
    LET bb == W.bubbles[b]
        pending == \E tm \in W.timers : tm.id = bb.hideTimeout
        W1 == IF bb.hideTimeout # NoTimer
              THEN [ClearTimeout(W, bb.hideTimeout)
                        EXCEPT !.bubbles[b].hideTimeout = NoTimer]
              ELSE W
        W2 == [W1 EXCEPT !.bubbles[b].text = msg, !.bubbles[b].made = TRUE,
                         !.bubbles[b].sinceShow = 0,
                         !.bubbles[b].shownFor = d,
                         !.bubbles[b].hideSince = FALSE]
        W3 == IF ~bb.isVisible
              THEN GsapTo([W2 EXCEPT !.bubbles[b].alpha = 0,
                                     !.bubbles[b].isVisible = TRUE],
                          b, "bubbleIn", BubbleInTicks, 0, 0)
              ELSE W2
        W4 == IF d > 0
              THEN LET T == SetTimeout(W3, b, "hide", d, pending)
                   IN [T EXCEPT !.bubbles[b].hideTimeout = T.ntimer]
              ELSE W3
    IN [W4 EXCEPT !.ev = Event("show", b, 0, msg, pending)]

\* BubbleText.hide()
BubbleHide(W, b) ==
    LET bb == W.bubbles[b]
        W1 == IF bb.hideTimeout # NoTimer
              THEN [ClearTimeout(W, bb.hideTimeout)
                        EXCEPT !.bubbles[b].hideTimeout = NoTimer]
              ELSE W
    IN IF ~bb.isVisible THEN W
       ELSE GsapTo([W1 EXCEPT !.bubbles[b].hideSince = TRUE],
                   b, "bubbleOut", BubbleOutTicks, 0, 0)

\* BubbleText.destroy()
BubbleDestroy(W, b) ==
    LET bb == W.bubbles[b]
        W1 == IF bb.hideTimeout # NoTimer
              THEN ClearTimeout(W, bb.hideTimeout) ELSE W
    IN [W1 EXCEPT !.bubbles[b].destroyed = TRUE]

\* ---- Character operations

\* Character.moveTo(position, duration, animationType)
CharMoveTo(W, r, p, dur, anim) ==
    LET a == W.actors[r]
        inFlight == \E i \in 1..Len(W.tweens) : W.tweens[i].id = a.moveTween
        W1 == IF a.moveTween # NoTween THEN KillTween(W, a.moveTween) ELSE W
        targetX == p.x
        targetY == Or(p.groundY, Or(p.y, a.groundY))
        a1 == Face(a, targetX)
        d == IF dur = NoDuration
             THEN DefaultDuration(targetX - a.x, targetY - a.y) ELSE dur
        a2 == PlayAnimation([a1 EXCEPT !.isMoving = TRUE], anim, FALSE)
        W2 == GsapTo([W1 EXCEPT !.actors[r] = a2], r, "move", d, targetX, targetY)
    IN [W2 EXCEPT !.actors[r].moveTween = W2.ntween,
                  !.actors[r].goal = p,
                  !.actors[r].cmdSince = FALSE,
                  !.actors[r].overrode = inFlight]

\* onComplete of the move tween (Character.js 148-153)
MoveComplete(W, tw) ==
    LET a == W.actors[tw.owner]
        a1 == PlayAnimation([a EXCEPT !.isMoving = FALSE, !.groundY = tw.ty],
                            "idle", FALSE)
    IN [W EXCEPT !.actors[tw.owner] =
            [a1 EXCEPT !.moveTween = NoTween, !.justCompleted = TRUE]]

\* jumpTo without its first line: an airborne actor jumps again
CharJumpToNoGuard(W, r, p) ==
    LET a == W.actors[r]
        targetX == p.x
        targetY == Or(p.groundY, Or(p.y, a.groundY))
        a1 == Face(a, targetX)
        a2 == PlayAnimation([a1 EXCEPT !.isGrounded = FALSE], "jump", FALSE)
        W1 == GsapTo([W EXCEPT !.actors[r] = a2], r, "jump", JumpTicks,
                     targetX, targetY)
        n == Len(W1.tweens)
    IN [W1 EXCEPT !.tweens[n].peak = a.y - JumpHeight,
                  !.actors[r].cmdSince = TRUE]

\* Character.jumpTo(position, height) with the default height
CharJumpTo(W, r, p) ==
    LET a == W.actors[r]
        targetX == p.x
        targetY == Or(p.groundY, Or(p.y, a.groundY))
        a1 == Face(a, targetX)
        a2 == PlayAnimation([a1 EXCEPT !.isGrounded = FALSE], "jump", FALSE)
        W1 == GsapTo([W EXCEPT !.actors[r] = a2], r, "jump", JumpTicks,
                     targetX, targetY)
        n == Len(W1.tweens)
    IN IF ~a.isGrounded
       THEN [W EXCEPT !.actors[r].cmdSince = TRUE]          \* return null
       ELSE [W1 EXCEPT !.tweens[n].peak = a.y - JumpHeight,
                       !.actors[r].cmdSince = TRUE]

\* onComplete of the jump timeline (Character.js 187-191)
JumpComplete(W, tw) ==
    LET a == W.actors[tw.owner]
    IN [W EXCEPT !.actors[tw.owner] =
            PlayAnimation([a EXCEPT !.isGrounded = TRUE, !.groundY = tw.ty],
                          "idle", FALSE)]

\* Character.attack(targetPosition); tx = NoCoord when no target is passed.
\* Without a spritesheet sprite.textures is undefined and the timer line
\* throws before setTimeout is reached.
CharAttack(W, r, tx) ==
    LET a == W.actors[r]
        a1 == IF tx # NoCoord THEN Face(a, tx) ELSE a
        a2 == [PlayAnimation(a1, "attack", FALSE) EXCEPT !.cmdSince = TRUE]
        W1 == [W EXCEPT !.actors[r] = a2]
    IN IF a.clips = {} THEN W1
       ELSE SetTimeout(W1, r, "attackIdle", AttackIdleDelay, FALSE)

\* the attack timer's callback (Character.js 289-294)
AttackIdle(W, r) ==
    IF W.actors[r].currentAnimation = "attack"
    THEN [W EXCEPT !.actors[r] = PlayAnimation(@, "idle", FALSE)]
    ELSE W

\* Character.hurt(knockbackForce)
CharHurt(W, r, force) ==
    LET a == W.actors[r]
        a1 == [PlayAnimation(a, "hurt", FALSE) EXCEPT !.cmdSince = TRUE]
        knockbackX == IF a.direction = "right" THEN -force ELSE force
        W1 == GsapTo([W EXCEPT !.actors[r] = a1], r, "knock", KnockTicks,
                     a.x + knockbackX, 0)
    IN SetTimeout(W1, r, "hurtIdle", HurtIdleDelay, FALSE)

\* the hurt timer's callback (Character.js 309-313)
HurtIdle(W, r) ==
    IF W.actors[r].currentAnimation = "hurt"
    THEN [W EXCEPT !.actors[r] = PlayAnimation(@, "idle", FALSE)]
    ELSE W

\* die() that stops the tween and leaves the flag as it is
CharDieKeepsMoving(W, r) ==
    LET a == W.actors[r]
        a1 == [PlayAnimation(a, "die", FALSE) EXCEPT !.cmdSince = TRUE]
        W1 == IF a.moveTween # NoTween THEN KillTween(W, a.moveTween) ELSE W
    IN GsapTo([W1 EXCEPT !.actors[r] = a1], r, "fade", DieFadeTicks, 0, 0)

\* Character.walkTo(position, duration)
CharWalkTo(W, r, p, dur) == CharMoveTo(W, r, p, dur, "walk")

\* Character.runTo(position, duration): duration * 0.6, or null when the
\* duration is null or 0
CharRunTo(W, r, p, dur) ==
    LET runDuration == IF dur = NoDuration \/ dur = 0 THEN NoDuration
                       ELSE (dur * 6) \div 10
    IN CharMoveTo(W, r, p, runDuration, "run")

\* Character.die()
CharDie(W, r) ==
    LET a == W.actors[r]
        a1 == [PlayAnimation(a, "die", FALSE) EXCEPT !.isMoving = FALSE,
                                                     !.cmdSince = TRUE]
        W1 == IF a.moveTween # NoTween THEN KillTween(W, a.moveTween) ELSE W
    IN GsapTo([W1 EXCEPT !.actors[r] = a1], r, "fade", DieFadeTicks, 0, 0)

\* update that marks the landing but leaves the sprite where gravity took it
CharUpdateNoClamp(a, dt) ==
    IF a.isGrounded THEN a
    ELSE LET vy == a.vy + Gravity * dt
             y == a.y + vy * dt
         IN IF y >= a.groundY
            THEN LET l == [a EXCEPT !.y = y, !.vy = 0, !.isGrounded = TRUE]
                 IN IF l.currentAnimation = "jump"
                    THEN PlayAnimation(l, "idle", FALSE) ELSE l
            ELSE [a EXCEPT !.vy = vy, !.y = y]

\* Character.update(delta)
CharUpdate(a, dt) ==
    IF a.isGrounded THEN a
    ELSE LET vy == a.vy + Gravity * dt
             y == a.y + vy * dt
         IN IF y >= a.groundY
            THEN LET l == [a EXCEPT !.y = a.groundY, !.vy = 0,
                                    !.isGrounded = TRUE]
                 IN IF l.currentAnimation = "jump"
                    THEN PlayAnimation(l, "idle", FALSE) ELSE l
            ELSE [a EXCEPT !.vy = vy, !.y = y]

\* Character.showBubble(text, stage, duration)
CharShowBubble(W, r, msg, d) ==
    BubbleShow([W EXCEPT !.actors[r].hasBubble = TRUE,
                         !.actors[r].cmdSince = TRUE], r, msg, d)

\* Character.hideBubble()
CharHideBubble(W, r) ==
    IF W.actors[r].hasBubble
    THEN BubbleHide([W EXCEPT !.actors[r].cmdSince = TRUE], r)
    ELSE [W EXCEPT !.actors[r].cmdSince = TRUE]

\* Character.destroy()
CharDestroy(W, r) ==
    LET a == W.actors[r]
        W1 == IF a.moveTween # NoTween THEN KillTween(W, a.moveTween) ELSE W
        W2 == IF a.hasBubble THEN BubbleDestroy(W1, r) ELSE W1
    IN [W2 EXCEPT !.actors[r].destroyed = TRUE, !.actors[r].cmdSince = TRUE]

\* ease "power2.out": 1 - (1 - p)^2 at p = el / dur, on integers
EaseOut(from, to, el, dur) ==
    from + ((to - from) * (dur * dur - (dur - el) * (dur - el))) \div (dur * dur)

\* ease "power2.in": p^2 at p = el / dur, on integers
EaseIn(from, to, el, dur) ==
    from + ((to - from) * el * el) \div (dur * dur)

\* onComplete of a tween, by kind; the tween has taken its end values.
TweenComplete(W, tw) ==
    CASE tw.kind = "bubbleIn" -> [W EXCEPT !.bubbles[tw.owner].alpha = 100]
      [] tw.kind = "bubbleOut" ->
            [W EXCEPT !.bubbles[tw.owner].alpha = 0,
                      !.bubbles[tw.owner].isVisible = FALSE]
      [] tw.kind = "move" ->
            MoveComplete([W EXCEPT !.actors[tw.owner].x = tw.tx,
                                   !.actors[tw.owner].y = tw.ty], tw)
      [] tw.kind = "jump" ->
            JumpComplete([W EXCEPT !.actors[tw.owner].x = tw.tx,
                                   !.actors[tw.owner].y = tw.ty], tw)
      [] tw.kind = "knock" -> [W EXCEPT !.actors[tw.owner].x = tw.tx]
      [] OTHER -> W

\* One render of a live tween that has not reached its end.  The jump
\* timeline eases x over its whole length, y up to the peak over the first
\* half and from the peak down to the target over the second half.
TweenRender(W, tw) ==
    CASE tw.kind = "move" ->
            [W EXCEPT !.actors[tw.owner].x = EaseOut(tw.sx, tw.tx, tw.el, tw.dur),
                      !.actors[tw.owner].y = EaseOut(tw.sy, tw.ty, tw.el, tw.dur)]
      [] tw.kind = "knock" ->
            [W EXCEPT !.actors[tw.owner].x = EaseOut(tw.sx, tw.tx, tw.el, tw.dur)]
      [] tw.kind = "jump" ->
            [W EXCEPT !.actors[tw.owner].x = EaseOut(tw.sx, tw.tx, tw.el, tw.dur),
                      !.actors[tw.owner].y =
                          IF 2 * tw.el <= tw.dur
                          THEN EaseOut(tw.sy, tw.peak, 2 * tw.el, tw.dur)
                          ELSE EaseIn(tw.peak, tw.ty, 2 * tw.el - tw.dur, tw.dur)]
      [] OTHER -> W

\* The callback of a timer, by kind.
TimerCallback(W, tm) ==
    CASE tm.kind = "hide" ->
            BubbleHide([W EXCEPT !.ev = Event("autoHide", tm.owner, 0,
                                              W.bubbles[tm.owner].text, tm.flag)],
                       tm.owner)
      [] tm.kind = "attackIdle" ->
            AttackIdle([W EXCEPT !.ev = Event("attackIdle", tm.owner, 0,
                                              NoMessage, FALSE)], tm.owner)
      [] tm.kind = "hurtIdle" ->
            HurtIdle([W EXCEPT !.ev = Event("hurtIdle", tm.owner, 0,
                                            NoMessage, FALSE)], tm.owner)
      [] tm.kind = "arrange" ->
            CharMoveTo([W EXCEPT !.ev = Event("arrangeMove", tm.owner, 0,
                                              NoMessage, tm.flag)],
                       tm.owner, tm.goal, NoDuration, tm.anim)
      [] OTHER -> W

\* ---- Cutscene: a gsap timeline created paused, and its builder methods.
\* Times are ticks of 0.1 s.  gsap keeps a timeline's children ordered by
\* start time (ties in insertion order), puts a child added without a
\* position, or at '+=0', at the current end of the timeline, turns a
\* function passed to add() into a zero-duration callback, renders with
\* events suppressed on seek(), and drops a timeline from its root when the
\* playhead reaches the end while it is playing.
TimelineId == -1                     \* the handle of the Cutscene's timeline
NoAnchor == -1                       \* atTime not passed (undefined)
Anchors == {NoAnchor, 0, 1}          \* atTime values tried
WaitTimes == {1}                     \* wait(seconds) values tried
CutPoints == {Point(8, 4, NoCoord)}  \* move targets used by the programs
CutMoveTicks == 2                    \* the duration passed to move
SeekTimes == 0..3                    \* seek(time) values tried
NoMove == [ref |-> 0, x |-> 0, y |-> 0]

\* no Cutscene constructed
NoCutscene ==
    [made |-> FALSE, children |-> <<>>, time |-> 0, paused |-> TRUE,
     atEnd |-> FALSE, enhanced |-> TRUE,
     \* observation only: runs of onComplete, builder calls made, whether a
     \* transport call was made, and the movement scheduled by the last
     \* builder call
     completed |-> 0, built |-> 0, started |-> FALSE, lastMove |-> NoMove]

\* new Cutscene({onComplete}); enhanced tells whether the character object
\* the program drives has moveTo (a Character) or only sprite, setDirection
\* and playAnimation.
NewCutscene(enhanced) == [NoCutscene EXCEPT !.made = TRUE, !.enhanced = enhanced]

\* the timeline's entry among gsap's root children
TimelineTween ==
    [id |-> TimelineId, owner |-> 0, kind |-> "timeline", dur |-> 0, el |-> 0,
     tx |-> 0, ty |-> 0, sx |-> 0, sy |-> 0, peak |-> 0, init |-> FALSE]

\* A child of the timeline: a zero-duration callback ("call") or a tween.
\* ratio is 1 once the playhead has rendered it at or after its end; landed
\* tells that a render with events suppressed put the playhead exactly on a
\* callback, which then fires when the playhead moves on.
\* observation only: fired counts the runs of a callback, follows is the
\* movement the child was scheduled after with the default anchor, inOrder
\* tells that every run so far found that movement finished.
Child(kind, start, dur, op, r, p, d, name) ==
    [kind |-> kind, start |-> start, dur |-> dur, op |-> op, ref |-> r,
     p |-> p, d |-> d, name |-> name, ratio |-> 0, landed |-> FALSE,
     init |-> FALSE, sx |-> 0, sy |-> 0,
     fired |-> 0, follows |-> NoMove, inOrder |-> TRUE]

\* timeline.duration(): the latest end among the children
RECURSIVE TimelineDuration(_)
TimelineDuration(children) ==
    IF children = <<>> THEN 0
    ELSE Max(Head(children).start + Head(children).dur,
             TimelineDuration(Tail(children)))

\* timeline.add(child, position): behind the children starting no later
AddChild(c, child) ==
    LET n == Len(c.children)
        k == Cardinality({i \in 1..n : c.children[i].start <= child.start})
    IN [c EXCEPT !.children = SubSeq(@, 1, k) \o <<child>> \o SubSeq(@, k + 1, n)]

\* the position argument atTime || '+=0' resolved against the timeline
Position(c, atTime) ==
    IF atTime = NoAnchor \/ atTime = 0     \* undefined and 0 are falsy
    THEN TimelineDuration(c.children)      \* '+=0'
    ELSE atTime

\* Cutscene.wait(seconds)
CutWait(c, seconds) ==
    [AddChild(c, Child("tween", TimelineDuration(c.children), seconds, "wait",
                       0, Point(0, 0, NoCoord), 0, ""))
        EXCEPT !.lastMove = NoMove]

\* Cutscene.move(character, position, duration); a is the character now.
CutMove(c, a, r, position, duration) ==
    LET moved == [ref |-> r, x |-> position.x, y |-> position.y]
    IN IF c.enhanced
       THEN [AddChild(c, Child("call", TimelineDuration(c.children), 0,
                               "moveTo", r, position, duration, "walk"))
                EXCEPT !.lastMove = moved]
       ELSE LET deltaX == position.x - a.x
                c1 == IF Abs(deltaX) > DeadZone
                      THEN AddChild(c, Child("call", TimelineDuration(c.children),
                                             0, "setDirection", r, position, 0,
                                             IF deltaX > 0 THEN "right" ELSE "left"))
                      ELSE c
                c2 == AddChild(c1, Child("call", TimelineDuration(c1.children), 0,
                                         "playAnimation", r, position, 0, "walk"))
            IN [AddChild(c2, Child("tween", TimelineDuration(c2.children),
                                   duration, "position", r, position, duration, ""))
                   EXCEPT !.lastMove = moved]

\* Cutscene.walkTo(character, position, duration)
CutWalkTo(c, a, r, position, duration) == CutMove(c, a, r, position, duration)

\* Cutscene.animate(character, animationName, atTime)
CutAnimate(c, r, animationName, atTime) ==
    [AddChild(c, [Child("call", Position(c, atTime), 0, "playAnimation", r,
                        Point(0, 0, NoCoord), 0, animationName)
                     EXCEPT !.follows = IF atTime = NoAnchor THEN c.lastMove
                                        ELSE NoMove])
        EXCEPT !.lastMove = NoMove]

\* Cutscene.call(fn, atTime): atTime is not passed on to timeline.add
CutCall(c, atTime) ==
    [AddChild(c, [Child("call", TimelineDuration(c.children), 0, "fn", 0,
                        Point(0, 0, NoCoord), 0, "")
                     EXCEPT !.follows = IF atTime = NoAnchor THEN c.lastMove
                                        ELSE NoMove])
        EXCEPT !.lastMove = NoMove]

\* ease "power1.inOut" at p = el / dur, on integers
EaseInOut(from, to, el, dur) ==
    IF 2 * el <= dur
    THEN from + ((to - from) * 2 * el * el) \div (dur * dur)
    ELSE from + ((to - from) * (dur * dur - 2 * (dur - el) * (dur - el)))
                    \div (dur * dur)

\* what a callback child does when it runs
CallEffect(W, ch) ==
    CASE ch.op = "moveTo" ->
            CharMoveTo(W, ch.ref,
                       Point(ch.p.x, ch.p.y, Or(ch.p.groundY, ch.p.y)),
                       ch.d, ch.name)
      [] ch.op = "setDirection" ->
            [W EXCEPT !.actors[ch.ref] = SetDirection(@, ch.name)]
      [] ch.op = "playAnimation" ->
            [W EXCEPT !.actors[ch.ref] = PlayAnimation(@, ch.name, FALSE)]
      [] OTHER -> W

\* whether the movement a child was scheduled after has finished
MoveFinished(W, m) ==
    m = NoMove \/ (/\ ~W.actors[m.ref].isMoving
                   /\ W.actors[m.ref].x = m.x
                   /\ W.actors[m.ref].y = m.y)

\* One child rendered with the playhead at t.  Playing forward a child is
\* rendered once the playhead has reached its start, moving backward once
\* the playhead is at or before its end.
RenderChild(W, i, t, forward, suppressEvents) ==
    LET ch == W.cut.children[i]
        lt == t - ch.start
    IN IF ch.kind = "call"
       THEN IF (forward /\ lt < 0) \/ (~forward /\ lt > 0) THEN W
            ELSE IF lt < 0
            THEN [W EXCEPT !.cut.children[i].ratio = 0,
                           !.cut.children[i].landed = FALSE]
            ELSE LET fire == ~suppressEvents /\ (ch.ratio = 0 \/ ch.landed)
                     W1 == [W EXCEPT
                              !.cut.children[i].ratio = 1,
                              !.cut.children[i].landed = (suppressEvents /\ lt = 0),
                              !.cut.children[i].fired =
                                  IF fire /\ @ < MaxFired THEN @ + 1 ELSE @,
                              !.cut.children[i].inOrder =
                                  IF fire THEN @ /\ MoveFinished(W, ch.follows)
                                  ELSE @]
                 IN IF fire THEN CallEffect(W1, ch) ELSE W1
       ELSE LET l == IF lt < 0 THEN 0 ELSE IF lt > ch.dur THEN ch.dur ELSE lt
                onSprite == ch.op = "position"
                sx == IF ch.init \/ ~onSprite THEN ch.sx ELSE W.actors[ch.ref].x
                sy == IF ch.init \/ ~onSprite THEN ch.sy ELSE W.actors[ch.ref].y
                W1 == [W EXCEPT !.cut.children[i].init = TRUE,
                                !.cut.children[i].sx = sx,
                                !.cut.children[i].sy = sy,
                                !.cut.children[i].ratio = IF l = ch.dur THEN 1 ELSE 0]
                W2 == IF onSprite
                      THEN [W1 EXCEPT
                              !.actors[ch.ref].x = EaseInOut(sx, ch.p.x, l, ch.dur),
                              !.actors[ch.ref].y = EaseInOut(sy, ch.p.y, l, ch.dur)]
                      ELSE W1
            IN IF ~ch.init /\ lt < 0 THEN W                    \* not started
               ELSE IF ch.ratio = 1 /\ l = ch.dur THEN W       \* stays complete
               ELSE IF onSprite /\ l = ch.dur /\ ~suppressEvents
               THEN [W2 EXCEPT !.actors[ch.ref] = PlayAnimation(@, "idle", FALSE)]
               ELSE W2

RECURSIVE RenderChildren(_, _, _, _, _)
RenderChildren(W, order, t, forward, suppressEvents) ==
    IF order = <<>> THEN W
    ELSE RenderChildren(RenderChild(W, Head(order), t, forward, suppressEvents),
                        Tail(order), t, forward, suppressEvents)

\* The timeline rendered with its playhead moved to t: the children in
\* order (in reverse when the playhead moves back); at the end a playing
\* timeline leaves the root, and onComplete runs unless events are
\* suppressed.
RenderTimeline(W, t, suppressEvents) ==
    LET c == W.cut
        n == Len(c.children)
        forward == t >= c.time
        order == [i \in 1..n |-> IF forward THEN i ELSE n + 1 - i]
        W1 == RenderChildren([W EXCEPT !.cut.time = t], order, t, forward,
                             suppressEvents)
        end == t = TimelineDuration(c.children)
        W2 == IF end /\ ~c.paused THEN KillTween(W1, TimelineId) ELSE W1
    IN [W2 EXCEPT !.cut.atEnd = end,
                  !.cut.completed = IF end /\ ~suppressEvents /\ @ < MaxFired
                                    THEN @ + 1 ELSE @]

Attached(W) == \E i \in 1..Len(W.tweens) : W.tweens[i].id = TimelineId

\* the ticker reaches the timeline: a playing timeline advances by dt
TimelineAdvance(W, dt) ==
    LET c == W.cut
        dur == TimelineDuration(c.children)
    IN IF c.paused THEN W
       ELSE RenderTimeline(W, IF c.time + dt > dur THEN dur ELSE c.time + dt, FALSE)

\* Cutscene.play(): at the end the timeline is rendered once more with
\* events suppressed and leaves the root.
CutPlay(W) ==
    LET W1 == [W EXCEPT !.cut.paused = FALSE, !.cut.started = TRUE]
    IN IF W.cut.atEnd THEN KillTween(W1, TimelineId) ELSE W1

\* Cutscene.pause()
CutPause(W) == [W EXCEPT !.cut.paused = TRUE, !.cut.started = TRUE]

\* Cutscene.seek(time): timeline.seek(time) suppresses events; a timeline
\* that had left the root returns to it when the playhead is before the end.
CutSeek(W, time) ==
    LET c == W.cut
        dur == TimelineDuration(c.children)
        t == IF time > dur THEN dur ELSE time
        W0 == [W EXCEPT !.cut.started = TRUE]
        W1 == IF t = c.time THEN W0 ELSE RenderTimeline(W0, t, TRUE)
    IN IF ~W1.cut.atEnd /\ ~Attached(W1)
       THEN [W1 EXCEPT !.tweens = Append(@, TimelineTween)]
       ELSE W1

\* the calls to moveTo a playthrough of the program makes
MoveCalls(c) ==
    Cardinality({i \in 1..Len(c.children) : c.children[i].op = "moveTo"})

\* gsap's ticker: every live tween advances by dt, in creation order; a
\* tween that reaches its duration takes its end values, leaves the ticker
\* and runs onComplete.  Tweens created during the tick start next tick.
RECURSIVE GsapTick(_, _, _)
GsapTick(W, ids, dt) ==
    IF ids = <<>> THEN W
    ELSE LET live == SelectSeq(W.tweens, LAMBDA tw : tw.id = Head(ids))
         IN IF live = <<>> THEN GsapTick(W, Tail(ids), dt)   \* killed meanwhile
            ELSE IF live[1].kind = "timeline"
            THEN GsapTick(TimelineAdvance(W, dt), Tail(ids), dt)
            ELSE LET t0 == live[1]
                     onActor == t0.kind \in {"move", "jump", "knock", "fade"}
                     \* the 3 s fade of die() outlasts every run explored
                     \* here; its progress is not tracked
                     tw == [t0 EXCEPT
                              !.el = IF t0.kind = "fade" THEN @ ELSE @ + dt,
                              !.init = TRUE,
                              !.sx = IF ~t0.init /\ onActor
                                     THEN W.actors[t0.owner].x ELSE @,
                              !.sy = IF ~t0.init /\ onActor
                                     THEN W.actors[t0.owner].y ELSE @]
                     W1 == IF tw.el >= tw.dur
                           THEN TweenComplete(KillTween(W, tw.id), tw)
                           ELSE TweenRender(
                                  [W EXCEPT !.tweens =
                                      [i \in 1..Len(@) |->
                                          IF @[i].id = tw.id THEN tw ELSE @[i]]],
                                  tw)
                 IN GsapTick(W1, Tail(ids), dt)

TweenIds(W) == [i \in 1..Len(W.tweens) |-> W.tweens[i].id]

\* the scene's update loop: update(dt) on every actor it still drives
UpdateAll(W, dt) ==
    [W EXCEPT !.actors = [r \in Refs |->
        IF @[r].alive /\ @[r].managed /\ ~@[r].destroyed
        THEN CharUpdate(@[r], dt) ELSE @[r]]]

FrameModes == {"gsap", "gsapThenUpdate", "updateThenGsap"}

\* the world dt ticks later
Advance(W, dt, mode) ==
    LET W0 == [W EXCEPT
                 !.timers = {[tm EXCEPT !.left = @ - dt] : tm \in @},
                 !.bubbles = [b \in Refs |->
                     [@[b] EXCEPT !.sinceShow =
                         IF @ + dt > MaxAge THEN MaxAge ELSE @ + dt]]]
    IN CASE mode = "gsap" -> GsapTick(W0, TweenIds(W0), dt)
         [] mode = "gsapThenUpdate" ->
                UpdateAll(GsapTick(W0, TweenIds(W0), dt), dt)
         [] OTHER ->
                LET U == UpdateAll(W0, dt)
                IN GsapTick(U, TweenIds(U), dt)

\* Time passes: dt ticks later a frame runs the gsap ticker and, if a scene
\* loop is running, the actors' update(dt), in either order.  A timer fires
\* when it is due, so time does not step over a pending timer.
Tick(dt, mode) ==
    LET W1 == Advance(World, dt, mode)
    IN /\ \A tm \in timers : tm.left >= dt
       /\ \/ timers # {}                   \* otherwise nothing can change
          \/ \E i \in 1..Len(tweens) : tweens[i].kind # "timeline" \/ ~cut.paused
       /\ ntween + MoveCalls(cut) <= MaxTweens
       /\ SetWorld([W1 EXCEPT !.ev = Event("tick", 0, dt, NoMessage, FALSE)])
       /\ UNCHANGED <<now, sceneVars, regVars>>

\* A due timer runs its callback.
TimerFire(tm) ==
    /\ tm \in timers /\ tm.left <= 0
    /\ ntween < MaxTweens
    /\ SetWorld(TimerCallback([World EXCEPT !.timers = @ \ {tm}], tm))
    /\ UNCHANGED <<now, sceneVars, regVars>>

\* ---- a free-standing BubbleText driven by show / hide / destroy
Show(b, msg, d) ==
    /\ ~bubbles[b].destroyed
    /\ ntimer < MaxTimers /\ ntween < MaxTweens
    /\ SetWorld(BubbleShow(World, b, msg, d))
    /\ UNCHANGED <<now, sceneVars, regVars>>

Hide(b) ==
    /\ bubbles[b].made /\ ~bubbles[b].destroyed
    /\ ntween < MaxTweens
    /\ SetWorld([BubbleHide(World, b)
                    EXCEPT !.ev = Event("hide", b, 0, NoMessage, FALSE)])
    /\ UNCHANGED <<now, sceneVars, regVars>>

DestroyBubble(b) ==
    /\ bubbles[b].made /\ ~bubbles[b].destroyed
    /\ SetWorld([BubbleDestroy(World, b)
                    EXCEPT !.ev = Event("destroyBubble", b, 0, NoMessage, FALSE)])
    /\ UNCHANGED <<now, sceneVars, regVars>>

\* ---- a Character driven through its public methods
Live(r) == actors[r].alive /\ ~actors[r].destroyed

MoveTo(r, p, d) ==
    /\ Live(r) /\ ntween < MaxTweens
    /\ SetWorld([CharMoveTo(World, r, p, d, "walk")
                    EXCEPT !.ev = Event("moveTo", r, 0, NoMessage, FALSE)])
    /\ UNCHANGED <<now, sceneVars, regVars>>

JumpTo(r, p) ==
    /\ Live(r) /\ ntween < MaxTweens
    /\ LET W1 == CharJumpTo(World, r, p)      \* flag: a timeline is returned
       IN SetWorld([W1 EXCEPT !.ev = Event("jumpTo", r, 0, NoMessage,
                                           Len(W1.tweens) > Len(tweens))])
    /\ UNCHANGED <<now, sceneVars, regVars>>

\* character.update(delta), called on its own
UpdateCharacter(r, dt) ==
    /\ Live(r)
    /\ SetWorld([World EXCEPT !.actors[r] = CharUpdate(@, dt),
                              !.ev = Event("update", r, dt, NoMessage, FALSE)])
    /\ UNCHANGED <<now, sceneVars, regVars>>

Attack(r, tx) ==
    /\ Live(r) /\ ntimer < MaxTimers
    /\ SetWorld([CharAttack(World, r, tx)
                    EXCEPT !.ev = Event("attack", r, 0, NoMessage, FALSE)])
    /\ UNCHANGED <<now, sceneVars, regVars>>

Hurt(r, force) ==
    /\ Live(r) /\ ntimer < MaxTimers /\ ntween < MaxTweens
    /\ SetWorld([CharHurt(World, r, force)
                    EXCEPT !.ev = Event("hurt", r, 0, NoMessage, FALSE)])
    /\ UNCHANGED <<now, sceneVars, regVars>>

StrideTo(r, p, d) ==
    /\ Live(r) /\ ntween < MaxTweens
    /\ SetWorld([CharWalkTo(World, r, p, d)
                    EXCEPT !.ev = Event("walkTo", r, 0, NoMessage, FALSE)])
    /\ UNCHANGED <<now, sceneVars, regVars>>

RunTo(r, p, d) ==
    /\ Live(r) /\ ntween < MaxTweens
    /\ SetWorld([CharRunTo(World, r, p, d)
                    EXCEPT !.ev = Event("runTo", r, 0, NoMessage, FALSE)])
    /\ UNCHANGED <<now, sceneVars, regVars>>

Die(r) ==
    /\ Live(r) /\ ntween < MaxTweens
    /\ SetWorld([CharDie(World, r)
                    EXCEPT !.ev = Event("die", r, 0, NoMessage, FALSE)])
    /\ UNCHANGED <<now, sceneVars, regVars>>

\* setDirection called directly; flag: the call changed the direction
Turn(r, dir) ==
    /\ Live(r)
    /\ SetWorld([World EXCEPT
                   !.actors[r] = [SetDirection(@, dir) EXCEPT !.cmdSince = TRUE],
                   !.ev = Event("setDirection", r, 0, dir,
                                dir # actors[r].direction)])
    /\ UNCHANGED <<now, sceneVars, regVars>>

\* playAnimation called directly; the event keeps name and force
PlayClip(r, name, force) ==
    /\ Live(r)
    /\ SetWorld([World EXCEPT
                   !.actors[r] = [PlayAnimation(@, name, force)
                                     EXCEPT !.cmdSince = TRUE],
                   !.ev = Event("playAnimation", r, 0, name, force)])
    /\ UNCHANGED <<now, sceneVars, regVars>>

ShowBubble(r, msg, d) ==
    /\ Live(r) /\ ~bubbles[r].destroyed
    /\ ntimer < MaxTimers /\ ntween < MaxTweens
    /\ SetWorld(CharShowBubble(World, r, msg, d))
    /\ UNCHANGED <<now, sceneVars, regVars>>

Destroy(r) ==
    /\ Live(r)
    /\ SetWorld([CharDestroy(World, r)
                    EXCEPT !.ev = Event("destroy", r, 0, NoMessage, FALSE)])
    /\ UNCHANGED <<now, sceneVars, regVars>>

\* ---- a Cutscene program built by its builder methods, then transported
Building == cut.made /\ ~cut.started /\ cut.built < MaxProgram

Wait(seconds) ==
    /\ Building
    /\ SetWorld([World EXCEPT
                   !.cut = [CutWait(@, seconds) EXCEPT !.built = @ + 1],
                   !.ev = Event("wait", 0, seconds, NoMessage, FALSE)])
    /\ UNCHANGED <<now, sceneVars, regVars>>

Move(r, position, duration) ==
    /\ Building /\ Live(r)
    /\ SetWorld([World EXCEPT
                   !.cut = [CutMove(@, actors[r], r, position, duration)
                               EXCEPT !.built = @ + 1],
                   !.ev = Event("move", r, duration, NoMessage, FALSE)])
    /\ UNCHANGED <<now, sceneVars, regVars>>

WalkTo(r, position, duration) ==
    /\ Building /\ Live(r)
    /\ SetWorld([World EXCEPT
                   !.cut = [CutWalkTo(@, actors[r], r, position, duration)
                               EXCEPT !.built = @ + 1],
                   !.ev = Event("walkTo", r, duration, NoMessage, FALSE)])
    /\ UNCHANGED <<now, sceneVars, regVars>>

Animate(r, animationName, atTime) ==
    /\ Building /\ Live(r)
    /\ SetWorld([World EXCEPT
                   !.cut = [CutAnimate(@, r, animationName, atTime)
                               EXCEPT !.built = @ + 1],
                   !.ev = Event("animate", r, atTime, NoMessage, FALSE)])
    /\ UNCHANGED <<now, sceneVars, regVars>>

Call(atTime) ==
    /\ Building
    /\ SetWorld([World EXCEPT
                   !.cut = [CutCall(@, atTime) EXCEPT !.built = @ + 1],
                   !.ev = Event("call", 0, atTime, NoMessage, FALSE)])
    /\ UNCHANGED <<now, sceneVars, regVars>>

Play ==
    /\ cut.made
    /\ SetWorld([CutPlay(World) EXCEPT !.ev = Event("play", 0, 0, NoMessage, FALSE)])
    /\ UNCHANGED <<now, sceneVars, regVars>>

Pause ==
    /\ cut.made
    /\ SetWorld([CutPause(World) EXCEPT !.ev = Event("pause", 0, 0, NoMessage, FALSE)])
    /\ UNCHANGED <<now, sceneVars, regVars>>

Seek(time) ==
    /\ cut.made
    /\ SetWorld([CutSeek(World, time)
                    EXCEPT !.ev = Event("seek", 0, time, NoMessage, FALSE)])
    /\ UNCHANGED <<now, sceneVars, regVars>>

\* ---- CharacterManager
CharIds == {"hero", "foe"}
NoRef == 0

\* removeCharacter that forgets the id and leaves the list as it is
RemoveKeepsList(reg, id) ==
    LET r == reg.byId[id]
    IN IF r = NoRef THEN reg
       ELSE [list |-> reg.list, byId |-> [reg.byId EXCEPT ![id] = NoRef]]

\* CharacterManager.removeCharacter(id), on the registry and the world
RemoveFromRegistry(reg, id) ==
    LET r == reg.byId[id]
    IN IF r = NoRef THEN reg
       ELSE [list |-> SelectSeq(reg.list, LAMBDA c : c # r),
             byId |-> [reg.byId EXCEPT ![id] = NoRef]]

RemoveFromWorld(W, r) ==
    LET W1 == IF W.actors[r].hasBubble THEN BubbleDestroy(W, r) ELSE W
    IN [W1 EXCEPT !.actors[r].managed = FALSE]

\* CharacterManager.removeCharacter(id)
RemoveCharacter(id) ==
    LET r == charactersById[id]
        reg == RemoveFromRegistry([list |-> characters, byId |-> charactersById], id)
        W == IF r = NoRef THEN World ELSE RemoveFromWorld(World, r)
    IN /\ characters' = reg.list
       /\ charactersById' = reg.byId
       /\ SetWorld([W EXCEPT !.ev = Event("removeCharacter", r, 0, id, r # NoRef)])
       /\ UNCHANGED <<now, sceneVars, found, twin, loader>>

\* CharacterManager.addCharacter(id, spritesheet, startPosition, options);
\* r is the Character object the call constructs.
AddCharacter(id, r, start, clips) ==
    LET old == charactersById[id]
        reg == RemoveFromRegistry([list |-> characters, byId |-> charactersById], id)
        W1 == IF old = NoRef THEN World
              ELSE [RemoveFromWorld(World, old) EXCEPT !.actors[old].replaced = TRUE]
        position == Point(start.x, start.y, Or(start.groundY, start.y))
        c == [NewCharacter(position, clips) EXCEPT !.id = id]
    IN /\ ~actors[r].alive
       /\ \A q \in Refs : q < r => actors[q].alive
       /\ characters' = Append(reg.list, r)
       /\ charactersById' = [reg.byId EXCEPT ![id] = r]
       /\ SetWorld([W1 EXCEPT !.actors[r] = c,
                              !.ev = Event("addCharacter", r, 0, id, old # NoRef)])
       /\ UNCHANGED <<now, sceneVars, found, twin, loader>>

\* ---- formations: arrangeInLine / arrangeInCircle
Staggers == {0, 2}                   \* stagger values tried, in ticks
LineStarts == {Point(2, 4, NoCoord)}
LineEnds == {Point(6, 4, NoCoord), Point(4, 0, 6)}
Centers == {Point(4, 4, NoCoord)}
Radii == {2}

\* Math.cos / Math.sin of angleStep * index for a roster of count actors;
\* with one or two actors the angles are 0 and pi (sin(pi) is 1.2e-16).
Cos(index, count) == IF count = 2 /\ index = 1 THEN -1 ELSE 1
Sin(index, count) == 0

\* the setTimeout of one forEach round: index is the forEach index, batch
\* the call the round belongs to (both kept by the closure)
StaggeredMove(W, r, goal, anim, delay, index, batch) ==
    [W EXCEPT !.ntimer = @ + 1,
              !.timers = @ \cup {[id |-> W.ntimer + 1, owner |-> r,
                                  kind |-> "arrange", left |-> delay,
                                  flag |-> FALSE, goal |-> goal, anim |-> anim,
                                  index |-> index, batch |-> batch]}]

\* the forEach of arrangeInLine from index on
RECURSIVE LineFrom(_, _, _, _, _, _, _)
LineFrom(W, list, index, startPos, deltaX, deltaY, stagger) ==
    IF index >= Len(list) THEN W
    ELSE LineFrom(StaggeredMove(W, list[index + 1],
                                Point(startPos.x + deltaX * index, startPos.y,
                                      deltaY),
                                "walk", stagger * index, index, W.ntimer - index),
                  list, index + 1, startPos, deltaX, deltaY, stagger)

\* the forEach of arrangeInCircle from index on
RECURSIVE CircleFrom(_, _, _, _, _, _)
CircleFrom(W, list, index, center, radius, stagger) ==
    IF index >= Len(list) THEN W
    ELSE CircleFrom(StaggeredMove(W, list[index + 1],
                                  Point(center.x + Cos(index, Len(list)) * radius,
                                        center.y + Sin(index, Len(list)) * radius,
                                        Or(center.groundY, center.y)),
                                  "walk", stagger * index, index,
                                  W.ntimer - index),
                    list, index + 1, center, radius, stagger)

\* CharacterManager.arrangeInLine(startPos, endPos, 'walk', stagger)
ArrangeInLine(startPos, endPos, stagger) ==
    LET count == Len(characters)
        deltaX == (endPos.x - startPos.x) \div Max(count - 1, 1)
        deltaY == Or(endPos.groundY, Or(endPos.y, Or(startPos.groundY, startPos.y)))
        W == IF count = 0 THEN World
             ELSE LineFrom(World, characters, 0, startPos, deltaX, deltaY, stagger)
    IN /\ ntimer + count <= MaxTimers
       /\ SetWorld([W EXCEPT !.ev = Event("arrangeInLine", 0, stagger,
                                          NoMessage, count # 0)])
       /\ UNCHANGED <<now, sceneVars, regVars>>

\* CharacterManager.arrangeInCircle(center, radius, 'walk', stagger)
ArrangeInCircle(center, radius, stagger) ==
    LET count == Len(characters)
        W == IF count = 0 THEN World
             ELSE CircleFrom(World, characters, 0, center, radius, stagger)
    IN /\ ntimer + count <= MaxTimers
       /\ SetWorld([W EXCEPT !.ev = Event("arrangeInCircle", 0, stagger,
                                          NoMessage, count # 0)])
       /\ UNCHANGED <<now, sceneVars, regVars>>

\* the forEach of CharacterManager.clear over the rest of this.characters
RECURSIVE ClearWorld(_, _)
ClearWorld(W, list) ==
    IF list = <<>> THEN W
    ELSE ClearWorld(RemoveFromWorld(W, Head(list)), Tail(list))

\* CharacterManager.clear()
Clear ==
    /\ characters' = <<>>
    /\ charactersById' = [id \in CharIds |-> NoRef]
    /\ SetWorld([ClearWorld(World, characters)
                    EXCEPT !.ev = Event("clear", 0, 0, NoMessage,
                                        characters # <<>>)])
    /\ UNCHANGED <<now, sceneVars, found, twin, loader>>

\* ---- findNearestCharacter.  Distances are compared by their squares:
\* Math.sqrt is increasing and exact enough on the small integers used.
Infinity == -1                       \* the default maxDistance
Distance2(a, p) == (a.x - p.x) * (a.x - p.x) + (a.y - p.y) * (a.y - p.y)
Limit2(m) == IF m = Infinity THEN Infinity ELSE m * m
Closer(d2, best2) == best2 = Infinity \/ d2 < best2

\* the scan taking an actor at the same distance as the best so far
RECURSIVE ScanNearestLastWins(_, _, _, _, _)
ScanNearestLastWins(list, acts, p, best2, nearest) ==
    IF list = <<>> THEN nearest
    ELSE LET d2 == Distance2(acts[Head(list)], p)
         IN IF best2 = Infinity \/ d2 <= best2
            THEN ScanNearestLastWins(Tail(list), acts, p, d2, Head(list))
            ELSE ScanNearestLastWins(Tail(list), acts, p, best2, nearest)

\* the loop of findNearestCharacter over the rest of this.characters
RECURSIVE ScanNearest(_, _, _, _, _)
ScanNearest(list, acts, p, best2, nearest) ==
    IF list = <<>> THEN nearest
    ELSE LET d2 == Distance2(acts[Head(list)], p)
         IN IF Closer(d2, best2)
            THEN ScanNearest(Tail(list), acts, p, d2, Head(list))
            ELSE ScanNearest(Tail(list), acts, p, best2, nearest)

\* CharacterManager.findNearestCharacter(position, maxDistance)
FindNearestCharacter(p, m) ==
    /\ found' = [point |-> p, maxDistance |-> m,
                 nearest |-> ScanNearest(characters, actors, p, Limit2(m), NoRef)]
    /\ SetWorld([World EXCEPT !.ev = Event("findNearest", 0, 0, NoMessage, FALSE)])
    /\ UNCHANGED <<now, sceneVars, characters, charactersById, twin, loader>>

\* no program is being replayed
NoTwin == [on |-> FALSE, w |-> <<>>, shown |-> <<>>, twinShown |-> <<>>]

\* ============================================================= AssetLoader

\* The assets asked for, by name; Url gives asset.url
AssetNames == {"knight", "bg", "hit"}
Url == [n \in AssetNames |->
          CASE n = "knight" -> "knight.json" [] n = "bg" -> "bg.png"
            [] OTHER -> "hit.mp3"]

\* the branch of loadAssets an url takes
UrlKind(url) ==
    CASE url = "knight.json" -> "spritesheet"     \* url.endsWith('.json')
      [] url = "bg.png" -> "image"                \* /\.(png|jpg|..)$/i
      [] OTHER -> "audio"                         \* /\.(mp3|wav|ogg)$/i

\* new AssetLoader()
NewAssetLoader == [loadedAssets |-> {}, isLoading |-> FALSE, calls |-> <<>>]

\* loadAssets(assets, onComplete) up to its await.  A call is kept as the
\* promises it is waiting for (pending), whether one of them has rejected,
\* whether the code behind the await has run, and how often its onComplete
\* was invoked; accepted is FALSE for a call that returned at line 12.
LoaderLoadAssets(L, assets) ==
    IF L.isLoading
    THEN [L EXCEPT !.calls = Append(@, [assets |-> assets, accepted |-> FALSE,
                                        pending |-> {}, rejected |-> FALSE,
                                        resumed |-> FALSE, completed |-> 0])]
    ELSE [L EXCEPT !.isLoading = TRUE,
                   !.calls = Append(@, [assets |-> assets, accepted |-> TRUE,
                                        pending |-> assets \ L.loadedAssets,
                                        rejected |-> FALSE,
                                        resumed |-> FALSE, completed |-> 0])]

\* one load of call i settles: PIXI.Assets.load resolves or rejects, the
\* Audio element reports loadeddata or error.  A failed spritesheet is
\* replaced by a placeholder, a failed image rejects its promise, a failed
\* audio file resolves to null.
LoaderSettle(L, i, n, ok) ==
    LET kind == UrlKind(Url[n])
        stored == ok \/ kind = "spritesheet"
    IN [L EXCEPT !.loadedAssets = IF stored THEN @ \cup {n} ELSE @,
                 !.calls[i].pending = @ \ {n},
                 !.calls[i].rejected = @ \/ (~ok /\ kind = "image")]

\* Promise.all(promises) has settled for call i
AllSettled(c) == c.accepted /\ ~c.resumed /\ (c.rejected \/ c.pending = {})

\* the code behind the await, either branch: isLoading = false, onComplete()
LoaderResume(L, i) ==
    [L EXCEPT !.isLoading = FALSE,
              !.calls[i].resumed = TRUE,
              !.calls[i].completed = @ + 1]

InitRegistry ==
    /\ characters = <<>>
    /\ charactersById = [id \in CharIds |-> NoRef]
    /\ found = [point |-> Point(0, 0, NoCoord), maxDistance |-> Infinity,
                nearest |-> NoRef]
    /\ twin = NoTwin
    /\ loader = NewAssetLoader

InitQuiet ==
    /\ timers = {}
    /\ ntimer = 0
    /\ ntween = 0
    /\ bubbles = [b \in Refs |-> NewBubble]
    /\ lastEvent = Event("new", 0, 0, NoMessage, FALSE)

\* no tween running, no Cutscene constructed
InitHost == InitQuiet /\ tweens = <<>> /\ cut = NoCutscene

\* no Character constructed yet
InitWorld == InitHost /\ actors = [r \in Refs |-> NoActor]

\* ========================================================= specifications

\* nothing registered, nothing constructed, nothing pending
InitEmpty == InitScene /\ InitWorld /\ InitRegistry

\* Scene switching with a registry that only grows: scenes are registered
\* under fresh names, then changeScene calls and animation frames interleave.
AddFreshScene == \E n \in Names, s \in SceneIds : scenes[n] = NoScene /\ AddScene(n, s)
CallChangeScene == \E n \in Names, tr \in Transitions : ChangeScene(n, tr)
NextFrame == \E dt \in 1..MaxFrameDt : Frame(dt)

NextFade == AddFreshScene \/ CallChangeScene \/ NextFrame

SpecFade == InitEmpty /\ [][NextFade]_vars

\* A SceneManager whose scenes are registered, replaced and switched while
\* frames run.
CallAddScene == \E n \in Names, s \in SceneIds : AddScene(n, s)

NextManager == CallAddScene \/ CallChangeScene \/ NextFrame

SpecManager == InitEmpty /\ [][NextManager]_vars

\* A SceneManager whose callers also remove scenes while fades are pending.
CallRemoveScene == \E n \in Names : RemoveScene(n)

NextRemoval == CallAddScene \/ CallRemoveScene \/ CallChangeScene \/ NextFrame

SpecRemoval == InitEmpty /\ [][NextRemoval]_vars

\* Scenes are registered and replaced, fades are the only animated
\* transition, and the manager may be destroyed at any moment.
FadeCalls == {tr \in Transitions : tr.type \in {"none", "fade"}}
CallFade == \E n \in Names, tr \in FadeCalls : ChangeScene(n, tr)

NextTeardown == CallAddScene \/ CallFade \/ NextFrame \/ DestroyManager

SpecTeardown == InitEmpty /\ [][NextTeardown]_vars

\* A SceneManager to which the host forwards ticks, resizes and input
\* events while scenes are registered and switched.
CallInput == \E kind \in InputEvents : Input(kind)

NextHost ==
    \/ AddFreshScene \/ CallChangeScene \/ NextFrame
    \/ Update \/ Resize \/ CallInput

SpecHost == InitEmpty /\ [][NextHost]_vars

\* A free-standing BubbleText: show, hide, destroy, time and timers.
CallShow == \E msg \in Messages, d \in ShowDurations : Show(1, msg, d)
CallHide == Hide(1)
CallDestroyBubble == DestroyBubble(1)
NextTick == \E dt \in 1..MaxFrameDt, mode \in FrameModes : Tick(dt, mode)
NextTimer == \E tm \in timers : TimerFire(tm)

NextBubble == CallShow \/ CallHide \/ CallDestroyBubble \/ NextTick \/ NextTimer

SpecBubble == InitEmpty /\ [][NextBubble]_vars

\* One Character, constructed directly, driven by its public methods.
InitCharacter ==
    /\ InitScene /\ InitHost /\ InitRegistry
    /\ \E start \in StartPositions, clips \in ClipSets :
          actors = [r \in Refs |-> IF r = 1 THEN NewCharacter(start, clips)
                                   ELSE NoActor]

CallMoveTo == \E p \in MovePoints, d \in MoveDurations : MoveTo(1, p, d)
CallJumpTo == JumpTo(1, Point(8, 4, NoCoord))
CallAttack == Attack(1, NoCoord)
CallHurt == Hurt(1, 2)
CallTurn == \E dir \in Directions : Turn(1, dir)
CallPlayClip == \E name \in ClipNames, force \in BOOLEAN : PlayClip(1, name, force)
CallDie == Die(1)
CallDestroy == Destroy(1)

NextCharacter ==
    \/ CallMoveTo \/ CallJumpTo \/ CallAttack \/ CallHurt \/ CallDie
    \/ CallDestroy \/ NextTick \/ NextTimer

SpecCharacter == InitCharacter /\ [][NextCharacter]_vars

\* One Character on a wide floor, moved with the duration left to moveTo.
StrideStart == Point(0, 100, 100)
StridePoints == {Point(200, 100, NoCoord), Point(30, 60, NoCoord),
                 Point(10, 100, NoCoord), Point(0, 0, NoCoord)}
InitStride ==
    /\ InitScene /\ InitHost /\ InitRegistry
    /\ actors = [r \in Refs |-> IF r = 1 THEN NewCharacter(StrideStart, AllClips)
                                ELSE NoActor]

CallStride == \E p \in StridePoints : MoveTo(1, p, NoDuration)

NextStride == CallStride \/ NextTick

SpecStride == InitStride /\ [][NextStride]_vars

\* One Character sent about with moveTo, walkTo and runTo, killed and
\* destroyed while the gsap ticker runs.
RunDurations == {NoDuration, 5}
CallStrideTo == \E p \in MovePoints, d \in MoveDurations : StrideTo(1, p, d)
CallRunTo == \E p \in MovePoints, d \in RunDurations : RunTo(1, p, d)

NextGait ==
    \/ CallMoveTo \/ CallStrideTo \/ CallRunTo \/ CallDie \/ CallDestroy
    \/ NextTick

SpecGait == InitCharacter /\ [][NextGait]_vars

\* ---- AssetLoader calls and the completions of its loads
LoadAssets(assets) ==
    /\ Len(loader.calls) < MaxLoads
    /\ loader' = LoaderLoadAssets(loader, assets)
    /\ UNCHANGED <<now, sceneVars, worldVars, characters, charactersById,
                   found, twin>>

Settle(i, n, ok) ==
    /\ i \in 1..Len(loader.calls) /\ n \in loader.calls[i].pending
    /\ loader' = LoaderSettle(loader, i, n, ok)
    /\ UNCHANGED <<now, sceneVars, worldVars, characters, charactersById,
                   found, twin>>

Resume(i) ==
    /\ i \in 1..Len(loader.calls) /\ AllSettled(loader.calls[i])
    /\ loader' = LoaderResume(loader, i)
    /\ UNCHANGED <<now, sceneVars, worldVars, characters, charactersById,
                   found, twin>>

\* An AssetLoader asked for batches while earlier loads are still out.
\* Every load is answered in the end (the network or the Audio element
\* reports success or failure) and a settled Promise.all resumes its
\* awaiter in a microtask, so both kinds of step are weakly fair.
CallLoadAssets == \E assets \in SUBSET AssetNames : LoadAssets(assets)
NextSettle ==
    \E i \in 1..MaxLoads, n \in AssetNames, ok \in BOOLEAN : Settle(i, n, ok)
NextResume == \E i \in 1..MaxLoads : Resume(i)

NextLoading == CallLoadAssets \/ NextSettle \/ NextResume

SpecLoading ==
    /\ InitEmpty /\ [][NextLoading]_vars
    /\ WF_vars(NextSettle) /\ WF_vars(NextResume)

\* One Character under update(delta) alone: it stands, or is somewhere on
\* the arc of a jumpTo(position, height), playing 'jump' or the clip a
\* later moveTo switched to.
FallStarts == {Point(0, 4, NoCoord), Point(0, 8, NoCoord)}
FallClips == {"jump", "walk"}
Airborne(a, y, clip) ==
    PlayAnimation([a EXCEPT !.isGrounded = FALSE, !.y = y], clip, FALSE)
InitFall ==
    /\ InitScene /\ InitHost /\ InitRegistry
    /\ \E start \in FallStarts, clips \in ClipSets, grounded \in BOOLEAN,
          y \in 0..MaxTime, clip \in FallClips :
          /\ grounded => (y = start.y /\ clip = "jump")
          /\ actors = [r \in Refs |->
                IF r # 1 THEN NoActor
                ELSE IF grounded THEN NewCharacter(start, clips)
                ELSE Airborne(NewCharacter(start, clips), y, clip)]

CallUpdate == \E dt \in 1..MaxFrameDt : UpdateCharacter(1, dt)

NextFall == CallJumpTo \/ CallUpdate

SpecFall == InitFall /\ [][NextFall]_vars

\* One Character whose facing and clip are also set directly; its
\* spritesheet may lack the 'idle' clip.
InitPose ==
    /\ InitScene /\ InitHost /\ InitRegistry
    /\ \E start \in StartPositions, clips \in ClipSets \cup {NoIdleClips} :
          actors = [r \in Refs |-> IF r = 1 THEN NewCharacter(start, clips)
                                   ELSE NoActor]

NextPose ==
    \/ CallTurn \/ CallPlayClip
    \/ CallJumpTo \/ CallDie
    \/ NextTick

SpecPose == InitPose /\ [][NextPose]_vars

\* A CharacterManager whose actors are moved, attack and speak.
CallAddCharacter ==
    \E id \in CharIds, r \in Refs, start \in StartPositions :
        AddCharacter(id, r, start, AllClips)
CallRemoveCharacter == \E id \in CharIds : RemoveCharacter(id)
Registered == {charactersById[id] : id \in CharIds} \ {NoRef}
ActorMoveTo == \E r \in Registered : MoveTo(r, Point(8, 4, NoCoord), 2)
ActorAttack == \E r \in Registered : Attack(r, NoCoord)
ActorShowBubble == \E r \in Registered : ShowBubble(r, "A", 2)

NextRegistry ==
    \/ CallAddCharacter \/ CallRemoveCharacter \/ ActorMoveTo \/ ActorAttack
    \/ ActorShowBubble \/ NextTick \/ NextTimer

SpecRegistry == InitEmpty /\ [][NextRegistry]_vars

\* A CharacterManager whose actors stand at different places and are
\* searched by distance.
ScanStarts == {Point(0, 4, NoCoord), Point(6, 4, NoCoord), Point(3, 8, NoCoord)}
ScanPoints == {Point(3, 4, NoCoord), Point(6, 8, NoCoord)}
MaxDistances == {Infinity, 0, 3, 4, 5}
PlaceCharacter ==
    \E id \in CharIds, r \in Refs, start \in ScanStarts :
        AddCharacter(id, r, start, AllClips)
CallFindNearest ==
    \E p \in ScanPoints, m \in MaxDistances : FindNearestCharacter(p, m)

NextNearest == PlaceCharacter \/ CallRemoveCharacter \/ CallFindNearest

SpecNearest == InitEmpty /\ [][NextNearest]_vars

\* A CharacterManager whose roster is filled, thinned out and cleared.
NextRoster == PlaceCharacter \/ CallRemoveCharacter \/ Clear

SpecRoster == InitEmpty /\ [][NextRoster]_vars

\* A CharacterManager whose roster is arranged in formations while actors
\* come and go.  Timers run in the order they fall due, those due together
\* in the order they were set.
CallArrangeInLine ==
    \E startPos \in LineStarts, endPos \in LineEnds, stagger \in Staggers :
        ArrangeInLine(startPos, endPos, stagger)
CallArrangeInCircle ==
    \E center \in Centers, radius \in Radii, stagger \in Staggers :
        ArrangeInCircle(center, radius, stagger)
NextDueTimer ==
    \E tm \in timers :
        /\ \A o \in timers : o.left <= 0 => o.id >= tm.id
        /\ TimerFire(tm)

NextFormation ==
    \/ PlaceCharacter \/ CallRemoveCharacter \/ Clear
    \/ CallArrangeInLine \/ CallArrangeInCircle
    \/ NextTick \/ NextDueTimer

SpecFormation == InitEmpty /\ [][NextFormation]_vars

\* A Cutscene driving one character: the program is built, then played,
\* paused and sought while the gsap ticker runs.
InitCutscene ==
    /\ InitScene /\ InitQuiet /\ InitRegistry
    /\ tweens = <<TimelineTween>>
    /\ \E enhanced \in BOOLEAN : cut = NewCutscene(enhanced)
    /\ \E start \in StartPositions :
          actors = [r \in Refs |-> IF r = 1 THEN NewCharacter(start, AllClips)
                                   ELSE NoActor]

CallWait == \E s \in WaitTimes : Wait(s)
CallMove == \E p \in CutPoints : Move(1, p, CutMoveTicks)
CallWalkTo == \E p \in CutPoints : WalkTo(1, p, CutMoveTicks)
CallAnimate == \E atTime \in Anchors : Animate(1, "attack", atTime)
CallCall == \E atTime \in Anchors : Call(atTime)
CallPlay == Play
CallPause == Pause
CallSeek == \E t \in SeekTimes : Seek(t)

NextCutscene ==
    \/ CallWait \/ CallMove \/ CallWalkTo \/ CallAnimate \/ CallCall
    \/ CallPlay \/ CallPause \/ CallSeek \/ NextTick

SpecCutscene == InitCutscene /\ [][NextCutscene]_vars

\* One program built on two Cutscenes and played on both: for a Character,
\* whose moveTo is called, and for an object with the same start that has
\* only sprite, setDirection and playAnimation, whose position is tweened
\* on the timeline.
TwinPoints == {Point(8, 4, NoCoord), Point(0, 4, NoCoord)}
TwinFrame == 1                       \* both are watched every 0.1 s

\* what an onlooker sees of an actor, and the record of its changes
Shown(a) == <<a.direction, a.currentAnimation>>
Note(trace, a) ==
    IF trace # <<>> /\ trace[Len(trace)] = Shown(a) THEN trace
    ELSE Append(trace, Shown(a))

\* nothing is left to run in the world W
Quiet(W) == W.tweens = <<>> /\ W.timers = {} /\ W.cut.atEnd

InitTwin ==
    /\ InitScene /\ InitQuiet
    /\ characters = <<>>
    /\ charactersById = [id \in CharIds |-> NoRef]
    /\ found = [point |-> Point(0, 0, NoCoord), maxDistance |-> Infinity,
                nearest |-> NoRef]
    /\ loader = NewAssetLoader
    /\ tweens = <<TimelineTween>>
    /\ cut = NewCutscene(TRUE)
    /\ \E start \in StartPositions :
          /\ actors = [r \in Refs |-> IF r = 1 THEN NewCharacter(start, AllClips)
                                      ELSE NoActor]
          /\ twin = [on |-> TRUE,
                     w |-> [World EXCEPT !.cut = NewCutscene(FALSE)],
                     shown |-> <<Shown(NewCharacter(start, AllClips))>>,
                     twinShown |-> <<Shown(NewCharacter(start, AllClips))>>]

\* the call and its result in both worlds
Twinned(W1, W2) ==
    /\ SetWorld(W1)
    /\ twin' = [twin EXCEPT !.w = W2,
                            !.shown = Note(@, W1.actors[1]),
                            !.twinShown = Note(@, W2.actors[1])]
    /\ UNCHANGED <<now, sceneVars, characters, charactersById, found, loader>>

TwinWait(seconds) ==
    /\ Building
    /\ Twinned([World EXCEPT
                  !.cut = [CutWait(@, seconds) EXCEPT !.built = @ + 1],
                  !.ev = Event("wait", 0, seconds, NoMessage, FALSE)],
               [twin.w EXCEPT !.cut = CutWait(@, seconds)])

TwinMove(position, duration) ==
    /\ Building
    /\ Twinned([World EXCEPT
                  !.cut = [CutMove(@, actors[1], 1, position, duration)
                              EXCEPT !.built = @ + 1],
                  !.ev = Event("move", 1, duration, NoMessage, FALSE)],
               [twin.w EXCEPT
                  !.cut = CutMove(@, twin.w.actors[1], 1, position, duration)])

TwinPlay ==
    /\ cut.paused /\ cut.built > 0
    /\ Twinned([CutPlay(World) EXCEPT !.ev = Event("play", 0, 0, NoMessage, FALSE)],
               CutPlay(twin.w))

\* one frame of TwinFrame ticks passes in both worlds
TwinTick(dt) ==
    /\ ~cut.paused
    /\ ~(Quiet(World) /\ Quiet(twin.w))
    /\ Twinned([Advance(World, dt, "gsap")
                   EXCEPT !.ev = Event("tick", 0, dt, NoMessage, FALSE)],
               Advance(twin.w, dt, "gsap"))

CallTwinWait == \E s \in WaitTimes : TwinWait(s)
CallTwinMove == \E p \in TwinPoints : TwinMove(p, CutMoveTicks)
CallTwinTick == TwinTick(TwinFrame)

NextTwin == CallTwinWait \/ CallTwinMove \/ TwinPlay \/ CallTwinTick

SpecTwin == InitTwin /\ [][NextTwin]_vars

\* ================================================================= claims

\* ------------------------------------------------------------ claims C1, C7
PendingFades == {raf[i] : i \in 1..Len(raf)}
\* the fades that have a scene to fade out first (the two-phase transition)
TwoPhase(f) == f.kind = "out" \/ f.dur2 = f.total

\* C1: while isTransitioning is true every changeScene call returns false and
\* changes neither currentScene nor the pending target (nor anything else of
\* the transition); when the flag clears, the scene that the accepted call
\* named is currentScene.
C1_SecondChangeRejected ==
    [][ /\ (isTransitioning /\ lastCall'.op = "changeScene")
            => /\ lastCall'.ret = FALSE
               /\ UNCHANGED <<currentScene, currentSceneName, raf,
                              sceneActive, isTransitioning>>
        /\ (isTransitioning /\ ~isTransitioning')
            => \E f \in PendingFades :
                   /\ f.kind = "in"
                   /\ currentScene' = f.target
                   /\ currentSceneName' = f.tname
                   /\ scenes[f.tname] = f.target ]_vars

\* a call for another registered scene was rejected in the middle of a fade
C1_Witness ==
    /\ isTransitioning
    /\ lastCall.op = "changeScene" /\ lastCall.ret = FALSE
    /\ scenes[lastCall.name] # NoScene
    /\ \E f \in PendingFades : f.tname # lastCall.name

HideTimers(b) == {tm \in timers : tm.kind = "hide" /\ tm.owner = b}

\* C9: show cancels the auto-hide timer of the earlier show, so at most one
\* is pending, and it is the one of the latest show; the auto-hide that
\* fires does so d after the latest show, with that show's text in the
\* bubble, and leaves no other auto-hide behind.
C9_OneAutoHide ==
    \A b \in Refs :
        /\ Cardinality(HideTimers(b)) <= 1
        /\ \A tm \in HideTimers(b) :
              /\ tm.id = bubbles[b].hideTimeout
              /\ bubbles[b].shownFor > 0
              /\ tm.left = bubbles[b].shownFor - bubbles[b].sinceShow
        /\ (lastEvent.ev = "show" /\ lastEvent.ref = b /\ bubbles[b].shownFor > 0)
              => Cardinality(HideTimers(b)) = 1
        /\ (lastEvent.ev = "autoHide" /\ lastEvent.ref = b)
              => /\ HideTimers(b) = {}
                 /\ bubbles[b].sinceShow = bubbles[b].shownFor
                 /\ lastEvent.text = bubbles[b].text

\* the auto-hide of a second show fired, the first show's timer having been
\* cancelled while it was pending, and the bubble holds the second text
C9_Witness ==
    /\ lastEvent.ev = "autoHide" /\ lastEvent.flag
    /\ lastEvent.text = "B" /\ bubbles[lastEvent.ref].text = "B"

\* ------------------------------------------------------- claims C3, C4, C10
Core(a) == <<a.x, a.y, a.groundY, a.direction, a.currentAnimation,
             a.isMoving, a.isGrounded>>
MoveTweens(r) == {tweens[i] : i \in {j \in 1..Len(tweens) :
                      tweens[j].kind = "move" /\ tweens[j].owner = r}}

\* C3: when the tween of moveTo(p, d) completes with no other command in
\* between, isMoving is false, the sprite is at p in x and in y, and the
\* current animation is 'idle'.
C3_MoveEndsAtTarget ==
    \A r \in Refs :
        (actors[r].justCompleted /\ ~actors[r].cmdSince)
            => /\ ~actors[r].isMoving
               /\ actors[r].x = actors[r].goal.x
               /\ actors[r].y = actors[r].goal.y
               /\ actors[r].currentAnimation = "idle"

\* C4: a moveTo issued while a move is in flight cancels it: only the
\* latest move tween is live, isMoving is true while it is, and when it
\* completes the actor is at the second target.
C4_LastMoveWins ==
    \A r \in Refs :
        /\ \A tw \in MoveTweens(r) :
              tw.id = actors[r].moveTween /\ actors[r].isMoving
        /\ Cardinality(MoveTweens(r)) <= 1
        /\ (actors[r].justCompleted /\ actors[r].overrode /\ ~actors[r].cmdSince)
              => /\ ~actors[r].isMoving
                 /\ actors[r].x = actors[r].goal.x
                 /\ actors[r].y = actors[r].goal.y

\* C10: once destroy() has run, no timer or tween callback started earlier
\* runs against the actor: its state no longer changes.
C10_NothingAfterDestroy ==
    [][ \A r \in Refs :
          actors[r].destroyed
            => /\ Core(actors'[r]) = Core(actors[r])
               /\ ~(/\ lastEvent'.ev \in {"attackIdle", "hurtIdle"}
                    /\ lastEvent'.ref = r) ]_vars

\* ------------------------------------------------------------------ claim C8
OwnedTweens(r) == {i \in 1..Len(tweens) : tweens[i].owner = r}
OwnedTimers(r) == {tm \in timers : tm.owner = r}

\* C8: addCharacter with a registered id leaves the registry size unchanged,
\* makes getCharacter(id) the new actor, never keeps two actors under the id,
\* and releases the old actor: none of its tweens or timers is left to act.
C8_DuplicateAddReleasesOld ==
    /\ [](\A r \in Refs :
            actors[r].replaced
               => /\ OwnedTweens(r) = {} /\ OwnedTimers(r) = {}
                  /\ \A i \in 1..Len(characters) : characters[i] # r
                  /\ \A id \in CharIds : charactersById[id] # r)
    /\ [][ (lastEvent'.ev = "addCharacter" /\ lastEvent'.flag
            /\ lastEvent' # lastEvent)
            => /\ Len(characters') = Len(characters)
               /\ charactersById'[lastEvent'.text] = lastEvent'.ref
               /\ actors'[lastEvent'.ref].alive
               /\ ~actors[lastEvent'.ref].alive ]_vars

\* -------------------------------------------------------- claims C2, C5, C6
Calls == {i \in 1..Len(cut.children) : cut.children[i].kind = "call"}

\* C2: whatever the program and the play, pause and seek calls, onComplete
\* runs at most once, and only with the cursor at the end of the last
\* scheduled action; a seek to before the end and further playback do not
\* run it again.
C2_CompletesOnce ==
    /\ [](cut.completed <= 1)
    /\ [][cut'.completed # cut.completed
            => cut'.time = TimelineDuration(cut'.children)]_vars

\* C5: an action scheduled with the default anchor after a movement of
\* duration d runs only after that movement has finished.
C5_AfterMovement ==
    \A i \in Calls : cut.children[i].fired > 0 => cut.children[i].inOrder

\* C6: after seek(t), from any cursor position, every callback whose time is
\* at or before t has run exactly once and no callback after t has run
\* because of the seek.
C6_SeekCatchesUp ==
    [][ (lastEvent'.ev = "seek" /\ cut' # cut)
          => \A i \in 1..Len(cut.children) :
                cut.children[i].kind = "call"
                  => /\ cut.children[i].start <= cut'.time
                        => cut'.children[i].fired = 1
                     /\ cut.children[i].start > cut'.time
                        => cut'.children[i].fired = cut.children[i].fired ]_vars

\* ----------------------------------------------------------------- claim C11
\* C11: once die() has put the actor in the 'die' animation, no timer expiry
\* and no tween or timeline completion (attack or hurt reversion timer, move
\* completion, jump completion, landing in update) changes currentAnimation
\* away from 'die'.
C11_DieIsTerminal ==
    [][ \A r \in Refs :
          /\ actors[r].currentAnimation = "die"
          /\ lastEvent'.ev \in {"tick", "attackIdle", "hurtIdle"}
          => actors'[r].currentAnimation = "die" ]_vars

\* the same with no jump or move in flight: the reversion timers and the
\* landing in update respect 'die'
C11_DieHoldsWithoutTweens ==
    [][ \A r \in Refs :
          /\ actors[r].currentAnimation = "die"
          /\ ~\E i \in 1..Len(tweens) :
                  tweens[i].owner = r /\ tweens[i].kind \in {"jump", "move"}
          /\ lastEvent'.ev \in {"tick", "attackIdle", "hurtIdle"}
          => actors'[r].currentAnimation = "die" ]_vars

\* ----------------------------------------------------------------- claim C12
\* C12: jumpTo called while the actor is not grounded returns null, starts no
\* tween, and leaves direction, currentAnimation, groundY, position and
\* isGrounded as they were.  (The event's flag is whether a timeline was
\* returned.)
C12_AirborneJumpRejected ==
    [][ \A r \in Refs :
          /\ lastEvent'.ev = "jumpTo" /\ lastEvent'.ref = r
          /\ ~actors[r].isGrounded
          => /\ ~lastEvent'.flag
             /\ tweens' = tweens /\ ntween' = ntween /\ timers' = timers
             /\ Core(actors'[r]) = Core(actors[r]) ]_vars

\* a jumpTo was called and refused while a jump was in flight
C12_Witness ==
    /\ lastEvent.ev = "jumpTo" /\ ~lastEvent.flag
    /\ ~actors[lastEvent.ref].isGrounded
    /\ \E i \in 1..Len(tweens) : tweens[i].kind = "jump"

\* ----------------------------------------------------------------- claim C13
\* C13: setDirection is idempotent: after setDirection(dir) the actor faces
\* dir, and a second setDirection(dir) leaves the direction and the sign of
\* the sprite's horizontal scale as the first call left them (one mirror
\* flip, not two).
C13_SetDirectionIdempotent ==
    [][ \A r \in Refs :
          lastEvent'.ev = "setDirection" /\ lastEvent'.ref = r
          => LET dir == lastEvent'.text
                 once == actors'[r]
                 twice == SetDirection(once, dir)
             IN /\ once.direction = dir
                /\ twice.direction = once.direction
                /\ (twice.scaleX < 0) = (once.scaleX < 0) ]_vars

\* setDirection('left') was called on an actor that already faced left and
\* was mirrored: the second of two calls
C13_Witness ==
    /\ lastEvent.ev = "setDirection" /\ lastEvent.text = "left"
    /\ ~lastEvent.flag
    /\ actors[lastEvent.ref].direction = "left"
    /\ actors[lastEvent.ref].scaleX < 0

\* ----------------------------------------------------------------- claim C14
\* on a direct playAnimation(name, force): nothing changes when name is
\* current and force is false, and currentAnimation stays when there is no
\* spritesheet or no clip of that name
PlayAnimationSteps ==
    [][ \A r \in Refs :
          lastEvent'.ev = "playAnimation" /\ lastEvent'.ref = r
          => LET name == lastEvent'.text
                 force == lastEvent'.flag
             IN /\ (~force /\ actors[r].currentAnimation = name)
                      => Core(actors'[r]) = Core(actors[r])
                /\ name \notin actors[r].clips
                      => Core(actors'[r]) = Core(actors[r]) ]_vars

\* C14: playAnimation(name, force) is a no-op when name is current and force
\* is false; with no spritesheet or no clip called name it leaves
\* currentAnimation unchanged; so the currentAnimation of an actor built
\* with a spritesheet always names a clip of that sheet.
C14_ClipAlwaysExists ==
    /\ PlayAnimationSteps
    /\ [](\A r \in Refs :
            actors[r].alive /\ actors[r].clips # {}
              => actors[r].currentAnimation \in actors[r].clips)

\* the same for spritesheets that have an 'idle' clip
C14_ClipExistsGivenIdle ==
    /\ PlayAnimationSteps
    /\ [](\A r \in Refs :
            actors[r].alive /\ "idle" \in actors[r].clips
              => actors[r].currentAnimation \in actors[r].clips)

\* ----------------------------------------------------------------- claim C15
\* the children of a timeline without the one at index i
Without(children, i) ==
    SubSeq(children, 1, i - 1) \o SubSeq(children, i + 1, Len(children))

\* the action added by the last builder call is scheduled at time t
ScheduledAt(t) ==
    \E i \in 1..Len(cut'.children) :
       /\ Without(cut'.children, i) = cut.children
       /\ cut'.children[i].kind = "call"
       /\ cut'.children[i].start = t

\* C15: an action added with an absolute atTime t >= 0, t = 0 included, is
\* scheduled to fire when the cursor is at t; with atTime omitted it is
\* scheduled at the end of the timeline as built so far ('+=0').
C15_AbsoluteAnchor ==
    [][ lastEvent'.ev = "animate" /\ cut'.built = cut.built + 1
          => ScheduledAt(IF lastEvent'.at = NoAnchor
                         THEN TimelineDuration(cut.children)
                         ELSE lastEvent'.at) ]_vars

\* the same for the anchors other than 0
C15_NonZeroAnchor ==
    [][ (/\ lastEvent'.ev = "animate" /\ cut'.built = cut.built + 1
         /\ lastEvent'.at # 0)
          => ScheduledAt(IF lastEvent'.at = NoAnchor
                         THEN TimelineDuration(cut.children)
                         ELSE lastEvent'.at) ]_vars

\* ----------------------------------------------------------------- claim C16
\* what a changeScene call may not touch when it does nothing
ManagerUntouched ==
    /\ lifecycle' = <<>>
    /\ UNCHANGED <<scenes, currentScene, currentSceneName, isTransitioning,
                   sceneActive, sceneDestroyed, sceneAlpha, raf>>

\* the last step is changeScene(name) with the scene registered under name
\* being the current scene
SameSceneCall ==
    /\ lastCall'.op = "changeScene"
    /\ currentScene # NoScene
    /\ scenes[lastCall'.name] = currentScene

\* C16: while no transition is in progress, changeScene(name) with name the
\* current scene returns true, calls deactivate or activate on no scene and
\* leaves currentScene, currentSceneName and isTransitioning (false) as they
\* were.
C16_SameSceneNoOp ==
    [][ SameSceneCall /\ ~isTransitioning
          => lastCall'.ret /\ ManagerUntouched /\ ~isTransitioning' ]_vars

\* C16 as stated, whatever isTransitioning is: changeScene(name) with name
\* the current scene returns true and leaves the manager as it was.
C16_SameSceneAlwaysTrue ==
    [][ SameSceneCall => lastCall'.ret /\ ManagerUntouched ]_vars

\* changeScene was called with the current scene's name, outside a transition
C16_Witness ==
    /\ lastCall.op = "changeScene" /\ lastCall.ret
    /\ lastCall.name = currentSceneName
    /\ currentScene # NoScene /\ scenes[lastCall.name] = currentScene
    /\ sceneActive[currentScene]
    /\ ~isTransitioning /\ lifecycle = <<>>

\* ----------------------------------------------------------------- claim C17
\* C17: changeScene with a name that is not registered returns false and
\* changes nothing: currentScene, currentSceneName, isTransitioning and the
\* registry stay, and no scene is activated or deactivated.
C17_UnknownNameRejected ==
    [][ lastCall'.op = "changeScene" /\ scenes[lastCall'.name] = NoScene
          => ~lastCall'.ret /\ ManagerUntouched ]_vars

\* an unknown name was refused while a scene was current and idle
C17_Witness ==
    /\ lastCall.op = "changeScene" /\ ~lastCall.ret
    /\ scenes[lastCall.name] = NoScene
    /\ currentScene # NoScene /\ ~isTransitioning

\* ----------------------------------------------------------------- claim C18
\* C18: update(delta) reaches the current scene and no other, and it reaches
\* no scene at all while isTransitioning is true or while there is no
\* current scene that is active.
C18_UpdateOnlyCurrent ==
    [][ lastCall'.op = "update"
          => /\ delivered' \subseteq {currentScene} \ {NoScene}
             /\ isTransitioning => delivered' = {}
             /\ currentScene = NoScene => delivered' = {}
             /\ (currentScene # NoScene /\ ~sceneActive[currentScene])
                   => delivered' = {}
             /\ (/\ currentScene # NoScene /\ sceneActive[currentScene]
                 /\ ~isTransitioning) => delivered' = {currentScene} ]_vars

\* an update arrived during a transition, with a current scene, and reached
\* no scene
C18_Witness ==
    /\ lastCall.op = "update" /\ isTransitioning
    /\ currentScene # NoScene /\ sceneActive[currentScene]
    /\ delivered = {}

\* ----------------------------------------------------------------- claim C19
\* C19: every input and resize event (resize, onPointerDown, onPointerUp,
\* onPointerMove, onKeyDown, onKeyUp) is delivered to the current scene
\* only, and to no scene while isTransitioning is true.
C19_EventsOnlyWhenIdle ==
    [][ lastCall'.op \in InputEvents \cup {"resize"}
          => /\ delivered' \subseteq {currentScene} \ {NoScene}
             /\ isTransitioning => delivered' = {} ]_vars

\* the same for the pointer and key events alone
C19_InputOnlyWhenIdle ==
    [][ lastCall'.op \in InputEvents
          => /\ delivered' \subseteq {currentScene} \ {NoScene}
             /\ isTransitioning => delivered' = {} ]_vars

\* ----------------------------------------------------------------- claim C20
RegistrySize(reg) == Cardinality({m \in Names : reg[m] # NoScene})

\* C20: addScene(name, scene) with a registered name destroys the scene it
\* replaces; if that scene was current it is deactivated first and
\* currentScene and currentSceneName are left null; afterwards the registry
\* maps name to the new scene and has the size it had.
C20_ReplaceDestroysOld ==
    [][ \A n \in Names, s \in SceneIds :
          LET old == scenes[n]
          IN (/\ lastCall'.op = "addScene" /\ lastCall'.name = n
              /\ old # NoScene /\ scenes'[n] = s
              /\ AddScene(n, s))
             => /\ sceneDestroyed'[old] /\ ~sceneActive'[old]
                /\ lifecycle'[Len(lifecycle')] = Lifecycle("destroy", old)
                /\ old = currentScene
                     => /\ lifecycle'[1] = Lifecycle("deactivate", old)
                        /\ currentScene' = NoScene
                        /\ currentSceneName' = NoName
                /\ old # currentScene
                     => UNCHANGED <<currentScene, currentSceneName>>
                /\ scenes'[n] = s
                /\ \A m \in Names \ {n} : scenes'[m] = scenes[m]
                /\ RegistrySize(scenes') = RegistrySize(scenes) ]_vars

\* the current, active scene was replaced under its name
C20_Witness ==
    /\ lastCall.op = "addScene"
    /\ currentScene = NoScene /\ currentSceneName = NoName
    /\ Len(lifecycle) = 3
    /\ lifecycle[1].op = "deactivate" /\ lifecycle[3].op = "destroy"
    /\ scenes[lastCall.name] # NoScene
    /\ sceneDestroyed[lifecycle[3].scene]

\* ----------------------------------------------------------------- claim C21
\* the positions in this.characters of the actors strictly closer than m to p
InRange(p, m) ==
    {i \in 1..Len(characters) :
        m = Infinity \/ Distance2(actors[characters[i]], p) < m * m}

\* C21: findNearestCharacter(point, maxDistance) returns null when no actor
\* is strictly closer than maxDistance; otherwise it returns the actor at
\* the smallest distance among those strictly closer than maxDistance, the
\* earliest of this.characters when several are at that distance.
C21_NearestFirstWins ==
    [][ lastEvent'.ev = "findNearest"
          => LET p == found'.point
                 m == found'.maxDistance
                 near == InRange(p, m)
                 D(i) == Distance2(actors[characters[i]], p)
             IN IF near = {} THEN found'.nearest = NoRef
                ELSE \E i \in near :
                        /\ found'.nearest = characters[i]
                        /\ \A j \in near : D(i) <= D(j)
                        /\ \A j \in near : D(j) = D(i) => i <= j ]_vars

\* two actors at the same distance from the point, within maxDistance: the
\* one added first was returned
C21_Witness ==
    /\ lastEvent.ev = "findNearest"
    /\ Len(characters) = 2
    /\ found.maxDistance # Infinity
    /\ Distance2(actors[characters[1]], found.point)
         = Distance2(actors[characters[2]], found.point)
    /\ found.nearest = characters[1]

\* nothing was strictly closer than maxDistance although an actor stood at
\* exactly that distance: null was returned
C21_WitnessNull ==
    /\ lastEvent.ev = "findNearest"
    /\ found.nearest = NoRef
    /\ \E i \in 1..Len(characters) :
          Distance2(actors[characters[i]], found.point)
             = found.maxDistance * found.maxDistance

\* ----------------------------------------------------------------- claim C22
\* the duration in ticks that max(0.3, distance / moveSpeed) gives for the
\* squared distance d2 (whole ticks, rounded down)
IsDefaultDuration(dur, d2) ==
    IF 100 * d2 <= MinMoveTicks * MinMoveTicks * MoveSpeed * MoveSpeed
    THEN dur = MinMoveTicks
    ELSE /\ dur * dur * MoveSpeed * MoveSpeed <= 100 * d2
         /\ (dur + 1) * (dur + 1) * MoveSpeed * MoveSpeed > 100 * d2

\* the last step is moveTo(p) without a duration, and its tween lasts
\* max(0.3, distance / moveSpeed) for the distance from the actor to p
DurationFromDistance(r) ==
    LET a == actors[r]
        p == actors'[r].goal
        tw == tweens'[Len(tweens')]
    IN /\ tw.kind = "move" /\ tw.owner = r
       /\ IsDefaultDuration(tw.dur, Distance2(a, p))

\* the scenario: from (0,100), moveTo({x:200, y:100}) lasts 2.0 s
StrideScenario ==
    /\ lastEvent'.ev = "moveTo"
    /\ actors[1].x = StrideStart.x /\ actors[1].y = StrideStart.y
    /\ actors'[1].goal = Point(200, 100, NoCoord)

\* C22: moveTo without a duration lasts max(0.3, distance / moveSpeed), the
\* distance being the Euclidean one from the current position to the
\* target; from (0,100) with groundY 100 and moveSpeed 100,
\* moveTo({x:200, y:100}) lasts 2.0 s and ends with the actor at (200,100),
\* grounded and idle.
C22_DefaultDuration ==
    /\ [][ lastEvent'.ev = "moveTo" => DurationFromDistance(1) ]_vars
    /\ [][ StrideScenario => tweens'[Len(tweens')].dur = 20 ]_vars
    /\ [](actors[1].justCompleted /\ actors[1].goal = Point(200, 100, NoCoord)
            => /\ actors[1].x = 200 /\ actors[1].y = 100
               /\ actors[1].groundY = 100 /\ actors[1].isGrounded
               /\ ~actors[1].isMoving
               /\ actors[1].currentAnimation = "idle")

\* the same for targets whose y is not 0
C22_DefaultDurationNonZeroY ==
    /\ [][ (lastEvent'.ev = "moveTo" /\ actors'[1].goal.y # 0)
             => DurationFromDistance(1) ]_vars
    /\ [][ StrideScenario => tweens'[Len(tweens')].dur = 20 ]_vars
    /\ [](actors[1].justCompleted /\ actors[1].goal = Point(200, 100, NoCoord)
            => /\ actors[1].x = 200 /\ actors[1].y = 100
               /\ actors[1].groundY = 100 /\ actors[1].isGrounded
               /\ ~actors[1].isMoving
               /\ actors[1].currentAnimation = "idle")

\* the scenario ran to its end
C22_ScenarioEnds ==
    /\ actors[1].justCompleted /\ actors[1].goal = Point(200, 100, NoCoord)
    /\ actors[1].x = 200 /\ ~actors[1].overrode

\* ----------------------------------------------------------------- claim C23
\* hide() called directly: nothing changes on a hidden bubble, and on a
\* visible one no auto-hide timer of the bubble is left pending
HideSteps ==
    [][ \A b \in Refs :
          lastEvent'.ev = "hide" /\ lastEvent'.ref = b
          => IF ~bubbles[b].isVisible
             THEN bubbles' = bubbles /\ tweens' = tweens /\ timers' = timers
             ELSE /\ {tm \in timers' : tm.kind = "hide" /\ tm.owner = b} = {}
                  /\ bubbles'[b].hideTimeout = NoTimer ]_vars

\* the exit animation ends with the bubble hidden
ExitHides ==
    [][ \A i \in 1..Len(tweens) :
          (/\ tweens[i].kind = "bubbleOut"
           /\ \A j \in 1..Len(tweens') : tweens'[j].id # tweens[i].id
           /\ lastEvent'.ev = "tick")
          => ~bubbles'[tweens[i].owner].isVisible ]_vars

\* C23: hide() on a hidden bubble changes nothing; on a visible bubble it
\* cancels the pending auto-hide timer and the bubble is hidden when the
\* exit animation completes; so no auto-hide timer is pending while the
\* bubble is hidden.
C23_HiddenHasNoTimer ==
    /\ HideSteps
    /\ ExitHides
    /\ [](\A b \in Refs : ~bubbles[b].isVisible => HideTimers(b) = {})

\* hide() by itself, as stated
C23_HideAlone == HideSteps /\ ExitHides

\* ----------------------------------------------------------------- claim C27
\* C27: after show(text, pos, d) with d > 0 the bubble is visible, and it
\* stays visible until its own auto-hide timer fires or hide() is called
\* after that show, also when the show came during the exit animation of an
\* earlier hide().
C27_VisibleAfterShow ==
    /\ [](\A b \in Refs :
            (lastEvent.ev = "show" /\ lastEvent.ref = b) => bubbles[b].isVisible)
    /\ [][ \A b \in Refs :
             (/\ bubbles[b].isVisible /\ ~bubbles[b].destroyed
              /\ bubbles[b].shownFor > 0
              /\ ~bubbles'[b].isVisible)
             => bubbles[b].hideSince ]_vars

\* the same for bubbles shown while no exit animation was running
C27_VisibleWithoutExit ==
    /\ [](\A b \in Refs :
            (lastEvent.ev = "show" /\ lastEvent.ref = b) => bubbles[b].isVisible)
    /\ [][ \A b \in Refs :
             (/\ bubbles[b].isVisible /\ ~bubbles[b].destroyed
              /\ bubbles[b].shownFor > 0
              /\ ~bubbles'[b].isVisible)
             => \/ bubbles[b].hideSince
                \/ \E i \in 1..Len(tweens) :
                      /\ tweens[i].kind = "bubbleOut" /\ tweens[i].owner = b
                      /\ tweens[i].el + bubbles[b].sinceShow <= tweens[i].dur ]_vars

\* ----------------------------------------------------------------- claim C24
\* a scene that is registered under some name and was not destroyed
LiveScene(s) == ~sceneDestroyed[s] /\ \E n \in Names : scenes[n] = s

\* C24: whatever removeScene, addScene or destroy did while a fade was
\* pending, the fade callbacks never dereference a null currentScene and
\* never activate, or make current, a scene that has been destroyed or is
\* no longer registered.
C24_FadeCallbacksSafe ==
    /\ [](~smThrew)
    /\ [][ lastCall'.op = "frame"
           => /\ \A i \in 1..Len(lifecycle') :
                    lifecycle'[i].op = "activate" => LiveScene(lifecycle'[i].scene)
              /\ (currentScene' # currentScene /\ currentScene' # NoScene)
                    => LiveScene(currentScene') ]_vars

\* the callbacks do complete a fade between two scenes
C24_FadeCompletes ==
    /\ lastCall.op = "frame"
    /\ \E i \in 1..Len(lifecycle) : lifecycle[i].op = "activate"
    /\ \E i \in 1..Len(lifecycle) : lifecycle[i].op = "deactivate"

\* ----------------------------------------------------------------- claim C30
\* C30: at most one registered scene is active, the active registered scene
\* is currentScene, and currentSceneName is the name under which
\* currentScene is registered, both null together.
C30_OneActiveCurrent ==
    /\ \A n \in Names :
          (scenes[n] # NoScene /\ sceneActive[scenes[n]])
          => scenes[n] = currentScene
    /\ (currentScene = NoScene) <=> (currentSceneName = NoName)
    /\ currentScene # NoScene => scenes[currentSceneName] = currentScene

\* a state with a current scene and another registered scene
C30_TwoRegistered ==
    /\ currentScene # NoScene
    /\ sceneActive[currentScene]
    /\ \E n \in Names : scenes[n] # NoScene /\ scenes[n] # currentScene

\* ----------------------------------------------------------------- claim C25
\* the run of onComplete finds the movement of the last builder call finished
CompletesAfterLastMove ==
    (cut'.completed > cut.completed /\ cut.lastMove # NoMove)
    => /\ ~actors'[cut.lastMove.ref].isMoving
       /\ actors'[cut.lastMove.ref].x = cut.lastMove.x
       /\ actors'[cut.lastMove.ref].y = cut.lastMove.y

\* C25: when the last action of the program is a movement of a Character,
\* onComplete runs only after that movement has finished: the actor is not
\* moving and stands at the target.
C25_CompleteAfterMove == [][cut.enhanced => CompletesAfterLastMove]_vars

\* the same for an object without moveTo, moved by a tween of the timeline
C25_CompleteAfterTween == [][~cut.enhanced => CompletesAfterLastMove]_vars

\* onComplete has run for a program that ends with a movement
C25_TweenProgramCompleted ==
    ~cut.enhanced /\ cut.completed > 0 /\ cut.lastMove # NoMove

\* ----------------------------------------------------------------- claim C26
\* the jump arcs of actor r that have not completed
JumpArcs(r) ==
    {i \in 1..Len(tweens) : tweens[i].kind = "jump" /\ tweens[i].owner = r}

\* the arc i ends in this step
ArcCompletes(i) ==
    /\ lastEvent'.ev = "tick"
    /\ \A j \in 1..Len(tweens') : tweens'[j].id # tweens[i].id

\* when an arc completes the actor stands grounded on the target
LandsAtTarget ==
    [][ \A r \in Refs : \A i \in JumpArcs(r) :
          ArcCompletes(i)
          => /\ actors'[r].isGrounded
             /\ actors'[r].y = tweens[i].ty
             /\ actors'[r].groundY = tweens[i].ty ]_vars

\* C26: from a successful jumpTo until its arc completes the actor is not
\* grounded, whatever update(dt) ticks come in between, so every jumpTo
\* issued during the arc is rejected; when the arc completes the actor is
\* grounded at the target y, groundY is the target y and the animation is
\* 'idle'.
C26_AirborneWholeArc ==
    /\ [](\A r \in Refs : JumpArcs(r) # {} => ~actors[r].isGrounded)
    /\ [][ \A r \in Refs :
             (lastEvent'.ev = "jumpTo" /\ lastEvent'.ref = r /\ JumpArcs(r) # {})
             => ~lastEvent'.flag ]_vars
    /\ LandsAtTarget
    /\ [][ \A r \in Refs : \A i \in JumpArcs(r) :
             ArcCompletes(i) => actors'[r].currentAnimation = "idle" ]_vars

\* the landing of an arc that is the only one in flight
C26_SingleArcLands ==
    [][ \A r \in Refs : \A i \in JumpArcs(r) :
          (ArcCompletes(i) /\ JumpArcs(r) = {i})
          => /\ actors'[r].isGrounded
             /\ actors'[r].y = tweens[i].ty
             /\ actors'[r].groundY = tweens[i].ty ]_vars

\* ----------------------------------------------------------------- claim C28
\* the animation an idle-reversion timer was started for
ActionOf(kind) == IF kind = "attackIdle" THEN "attack" ELSE "hurt"

\* the delay such a timer is set with
DelayOf(kind) == IF kind = "attackIdle" THEN AttackIdleDelay ELSE HurtIdleDelay

\* the reversion timers of actor r
ReversionTimers(r) ==
    {tm \in timers : tm.owner = r /\ tm.kind \in {"attackIdle", "hurtIdle"}}

\* a reversion timer expires while the timer of a later command of the same
\* action, issued while it was running, is still running: the actor stays in
\* the animation
EarlierTimerKeepsAction ==
    [][ \A tm \in timers \ timers' :
          (/\ lastEvent'.ev = tm.kind
           /\ tm.kind \in {"attackIdle", "hurtIdle"}
           /\ actors[tm.owner].currentAnimation = ActionOf(tm.kind)
           /\ \E later \in timers' :
                 /\ later.kind = tm.kind /\ later.owner = tm.owner
                 /\ later.id > tm.id
                 /\ later.left > 0 /\ later.left < DelayOf(tm.kind))
          => actors'[tm.owner].currentAnimation = ActionOf(tm.kind) ]_vars

\* a reversion timer leaves every other animation alone
OtherAnimationKept ==
    [][ \A tm \in timers \ timers' :
          (/\ lastEvent'.ev = tm.kind
           /\ tm.kind \in {"attackIdle", "hurtIdle"}
           /\ actors[tm.owner].currentAnimation # ActionOf(tm.kind))
          => Core(actors'[tm.owner]) = Core(actors[tm.owner]) ]_vars

\* the last reversion timer of an actor still in its action ends in 'idle'
LastTimerIdles ==
    [][ \A tm \in timers \ timers' :
          (/\ lastEvent'.ev = tm.kind
           /\ tm.kind \in {"attackIdle", "hurtIdle"}
           /\ actors[tm.owner].currentAnimation = ActionOf(tm.kind)
           /\ "idle" \in actors[tm.owner].clips
           /\ ReversionTimers(tm.owner) = {tm})
          => actors'[tm.owner].currentAnimation = "idle" ]_vars

\* C28: the idle-reversion timer of attack() and hurt() ends only the
\* action that started it: when the action is issued again before the
\* earlier timer expires the actor stays in the animation for the full clip
\* duration from the latest command, and the last timer to expire leaves
\* the actor in 'idle'.
C28_TimerEndsOwnAction ==
    EarlierTimerKeepsAction /\ OtherAnimationKept /\ LastTimerIdles

\* what holds: timers of one action do not end another, the last one idles
C28_TimerSparesOthers == OtherAnimationKept /\ LastTimerIdles

\* ----------------------------------------------------------------- claim C29
\* both playthroughs have run to their end
BothQuiet == twin.on /\ Quiet(World) /\ Quiet(twin.w)

\* C29: the same program from the same start shows the same sequence of
\* directions and animations on a Character (moveTo called) and on an
\* object moved by the bare position tween: the same turns, the same moving
\* animation, 'idle' at completion.
C29_SameTransitions == BothQuiet => twin.shown = twin.twinShown

\* the same for programs with one movement
C29_OneMoveSame ==
    (BothQuiet /\ MoveCalls(cut) <= 1) => twin.shown = twin.twinShown

\* a program with one movement was played to its end on both, and both
\* walked and came back to idle
C29_OneMovePlayed ==
    /\ BothQuiet /\ MoveCalls(cut) = 1
    /\ Len(twin.shown) = 3
    /\ twin.shown = twin.twinShown

\* ----------------------------------------------------------------- claim C31
\* the actors in the ordered list, and the ids in use
Listed == {characters[i] : i \in 1..Len(characters)}
IdsInUse == {id \in CharIds : charactersById[id] # NoRef}

\* C31: after any sequence of addCharacter, removeCharacter and clear the
\* list and the id map hold the same actors, each actor is in the list
\* once, each id maps to an actor whose id field is that id, and the list
\* is as long as the map is large.
C31_ListMatchesMap ==
    /\ Listed = {charactersById[id] : id \in IdsInUse}
    /\ Cardinality(Listed) = Len(characters)
    /\ \A id \in IdsInUse : actors[charactersById[id]].id = id
    /\ Len(characters) = Cardinality(IdsInUse)

\* an id was added a second time: the new actor is listed, the old is not
C31_Witness ==
    /\ lastEvent.ev = "addCharacter" /\ lastEvent.flag
    /\ characters = <<lastEvent.ref>>
    /\ \E r \in Refs : actors[r].replaced /\ r \notin Listed

\* the roster was cleared while it held two actors
C31_WitnessCleared ==
    /\ lastEvent.ev = "clear" /\ lastEvent.flag
    /\ characters = <<>> /\ IdsInUse = {}
    /\ Cardinality({r \in Refs : actors[r].alive /\ ~actors[r].managed}) = 2

\* ----------------------------------------------------------------- claim C32
\* whether scene s was active when entry i of the step's lifecycle record
\* was made
RECURSIVE ActiveAt(_, _, _)
ActiveAt(log, i, s) ==
    IF i = 1 THEN sceneActive[s]
    ELSE IF log[i - 1].scene = s /\ log[i - 1].op \in {"activate", "deactivate"}
         THEN log[i - 1].op = "activate"
         ELSE ActiveAt(log, i - 1, s)

\* C32: onDeactivate runs only on a scene that is active, so once per
\* activation: a scene is never deactivated more often than it was
\* activated, whatever changeScene, addScene, removeScene and the fade
\* callbacks do.
C32_DeactivateOnlyActive ==
    [][ \A i \in 1..Len(lifecycle') :
          lifecycle'[i].op = "deactivate"
          => ActiveAt(lifecycle', i, lifecycle'[i].scene) ]_vars

\* a scene switch deactivated the active scene
C32_SwitchDeactivates ==
    /\ lastCall.op \in {"changeScene", "frame"}
    /\ \E i \in 1..Len(lifecycle) : lifecycle[i].op = "deactivate"

\* ----------------------------------------------------------------- claim C33
\* C33: call(fn, atTime) schedules fn at the anchor atTime, as the other
\* zero-duration actions do, and at the end of the timeline as built so far
\* only when atTime is omitted.
C33_CallAtAnchor ==
    [][ lastEvent'.ev = "call" /\ cut'.built = cut.built + 1
          => ScheduledAt(IF lastEvent'.at = NoAnchor
                         THEN TimelineDuration(cut.children)
                         ELSE lastEvent'.at) ]_vars

\* the same for calls without atTime
C33_CallWithoutAnchor ==
    [][ (/\ lastEvent'.ev = "call" /\ cut'.built = cut.built + 1
         /\ lastEvent'.at = NoAnchor)
          => ScheduledAt(TimelineDuration(cut.children)) ]_vars

\* fn was appended behind a wait and has run
C33_AppendedCallRan ==
    /\ \E i \in 1..Len(cut.children) :
          /\ cut.children[i].op = "fn" /\ cut.children[i].start > 0
          /\ cut.children[i].fired = 1

\* ----------------------------------------------------------------- claim C34
\* the transitions changeScene finishes within the call
SyncTransitions == {tr \in Transitions : tr.type # "fade"}

\* what a finished switch to the scene registered as n leaves behind
SwitchedTo(n) ==
    /\ currentScene' = scenes[n]
    /\ ~isTransitioning'
    /\ raf' = raf
    /\ \/ /\ currentScene = scenes[n]
          /\ lifecycle' = <<>>
       \/ /\ currentScene = NoScene
          /\ lifecycle' = <<Lifecycle("activate", scenes[n])>>
          /\ currentSceneName' = n
       \/ /\ currentScene \notin {NoScene, scenes[n]}
          /\ lifecycle' = <<Lifecycle("deactivate", currentScene),
                            Lifecycle("activate", scenes[n])>>
          /\ currentSceneName' = n
          /\ ~sceneActive'[currentScene]
          /\ sceneActive'[scenes[n]]

\* C34: changeScene with no transition, 'slide' or an unknown type, when it
\* returns true, has deactivated the previous scene before it activated the
\* target, and leaves currentScene the target and isTransitioning false.
C34_SyncSwitch ==
    [][ \A n \in Names, tr \in SyncTransitions :
          (ChangeScene(n, tr) /\ lastCall'.ret) => SwitchedTo(n) ]_vars

\* a switch between two scenes done within one call
C34_Witness ==
    /\ lastCall.op = "changeScene" /\ lastCall.ret
    /\ ~isTransitioning /\ raf = <<>>
    /\ currentScene = scenes[lastCall.name]
    /\ Len(lifecycle) = 2
    /\ lifecycle[1].op = "deactivate" /\ lifecycle[2].op = "activate"
    /\ lifecycle[2].scene = currentScene
    /\ lifecycle[1].scene # currentScene

\* ----------------------------------------------------------------- claim C35
\* the staggered starts set by this step, and the one run by this step
Armed == {tm \in timers' \ timers : tm.kind = "arrange"}
Started == {tm \in timers \ timers' : tm.kind = "arrange"}

\* an arrange call sets one start per listed actor, N * stagger ahead
ArmsInListOrder ==
    lastEvent'.ev \in {"arrangeInLine", "arrangeInCircle"}
      => /\ Cardinality(Armed) = Len(characters)
         /\ \A i \in 1..Len(characters) :
               \E tm \in Armed :
                  /\ tm.owner = characters[i] /\ tm.index = i - 1
                  /\ tm.left = (i - 1) * lastEvent'.at

\* a start runs when it is due, after those of lower index of its call, and
\* puts a listed actor on the move
StartsInListOrder ==
    lastEvent'.ev = "arrangeMove"
      => \A tm \in Started :
            /\ tm.left = 0
            /\ \A o \in timers : (o.kind = "arrange" /\ o.batch = tm.batch
                                   /\ o.index < tm.index) => o \in Started
            /\ actors[tm.owner].managed
                 => /\ actors'[tm.owner].isMoving
                    /\ actors'[tm.owner].moveTween = ntween'
                    /\ ntween' = ntween + 1

\* a start whose actor has left the roster starts nothing
RemovedActorStays ==
    lastEvent'.ev = "arrangeMove"
      => \A tm \in Started :
            ~actors[tm.owner].managed
              => /\ Core(actors'[tm.owner]) = Core(actors[tm.owner])
                 /\ tweens' = tweens

\* C35: arrangeInLine and arrangeInCircle start the move of the actor at
\* index N after N * stagger, in list order, and a start still pending when
\* its actor is removed (removeCharacter, clear, destroy) starts no move on
\* that actor.
C35_StaggeredStarts ==
    [][ArmsInListOrder /\ StartsInListOrder /\ RemovedActorStays]_vars

\* what holds: the starts of listed actors, on time and in list order
C35_ListedStartInOrder == [][ArmsInListOrder /\ StartsInListOrder]_vars

\* the second actor of a formation has started its move after its stagger
C35_SecondStarted ==
    /\ lastEvent.ev = "arrangeMove"
    /\ Len(characters) = 2 /\ lastEvent.ref = characters[2]
    /\ actors[lastEvent.ref].isMoving
    /\ \A r \in Refs : actors[r].alive => actors[r].moveTween # NoTween

\* ----------------------------------------------------------------- claim C36
\* C36: update(dt) changes nothing of a grounded actor; for an airborne one
\* it adds gravity * dt to velocity.y and velocity.y * dt to y, and when y
\* reaches or passes groundY it clamps y to groundY, zeroes velocity.y, sets
\* isGrounded and switches to 'idle' only from 'jump'; so y does not exceed
\* groundY after an update of an airborne actor.
C36_UpdateFallsAndLands ==
    [][ \A r \in Refs :
          lastEvent'.ev = "update" /\ lastEvent'.ref = r
          => LET a == actors[r]
                 b == actors'[r]
                 vy == a.vy + Gravity * lastEvent'.at
                 y == a.y + vy * lastEvent'.at
             IN /\ a.isGrounded
                     => Core(b) = Core(a) /\ b.vy = a.vy
                /\ ~a.isGrounded
                     => /\ b.x = a.x /\ b.groundY = a.groundY
                        /\ b.y <= b.groundY
                        /\ y < a.groundY
                             => /\ b.y = y /\ b.vy = vy /\ ~b.isGrounded
                                /\ b.currentAnimation = a.currentAnimation
                        /\ y >= a.groundY
                             => /\ b.y = a.groundY /\ b.vy = 0 /\ b.isGrounded
                                /\ b.currentAnimation # a.currentAnimation
                                     => /\ a.currentAnimation = "jump"
                                        /\ b.currentAnimation = "idle" ]_vars

\* an update has landed an actor that had jumped, and switched it to 'idle'
C36_Landed ==
    /\ lastEvent.ev = "update"
    /\ tweens # <<>>
    /\ actors[1].isGrounded /\ actors[1].y = actors[1].groundY
    /\ actors[1].vy = 0 /\ actors[1].currentAnimation = "idle"
    /\ "jump" \in actors[1].clips

\* an update has left an actor in the air, faster and lower
C36_StillFalling ==
    /\ lastEvent.ev = "update"
    /\ ~actors[1].isGrounded
    /\ actors[1].vy = Gravity * lastEvent.at
    /\ actors[1].y < actors[1].groundY

\* ----------------------------------------------------------------- claim C37
\* no onComplete is invoked twice, and the code behind the await leaves
\* isLoading false
CompletesAtMostOnce ==
    [][ \A i \in 1..Len(loader'.calls) :
          /\ loader'.calls[i].completed <= 1
          /\ (i <= Len(loader.calls)
               /\ loader'.calls[i].completed > loader.calls[i].completed)
                => ~loader'.isLoading ]_vars

\* call i is made and its onComplete has been invoked
Completed(i) == i <= Len(loader.calls) /\ loader.calls[i].completed = 1

\* C37: every loadAssets(assets, onComplete) call eventually invokes its
\* onComplete exactly once, whether each asset loads or fails and whether or
\* not another loadAssets call is in progress, and isLoading is false again
\* once the batch has settled.
C37_EveryLoadCompletes ==
    /\ CompletesAtMostOnce
    /\ \A i \in 1..MaxLoads : (i <= Len(loader.calls)) ~> Completed(i)

\* what holds: a call made while no other is in progress completes
C37_AcceptedLoadCompletes ==
    /\ CompletesAtMostOnce
    /\ \A i \in 1..MaxLoads :
          (i <= Len(loader.calls) /\ loader.calls[i].accepted) ~> Completed(i)

\* a batch with a failed image has completed while another load was out
C37_CompletedOnFailure ==
    /\ Completed(1) /\ loader.calls[1].rejected
    /\ loader.calls[1].pending # {}
    /\ ~loader.isLoading

C38_StoppedByDie ==
    /\ lastEvent.ev = "die" /\ Live(1)
    /\ actors[1].moveTween # NoTween
    /\ ~actors[1].isMoving /\ MoveTweens(1) = {}

\* a move has run to its end
C38_Arrived ==
    /\ Live(1) /\ actors[1].justCompleted
    /\ ~actors[1].isMoving /\ MoveTweens(1) = {}

====
